---- MODULE Spec2Model ----
(***************************************************************************)
(* A model of the model-emulator server: the OpenAI adapter                *)
(* (server/openai_adapter.py), the LiteLLM client helpers                  *)
(* (server/litellm_client.py), the configuration manager                   *)
(* (server/config.py) and the logger's health snapshot (server/logger.py). *)
(*                                                                         *)
(* Python values are tagged records, so that None, strings, numbers, lists *)
(* and dicts can share a field.  Python strings are TLA+ strings; lower(), *)
(* strip() and the "in" substring test are computed character by           *)
(* character.                                                              *)
(***************************************************************************)
EXTENDS Integers, Sequences, FiniteSets, TLC

VARIABLES
    \* server/config.py: the backing documents and the module-level caches
    config_file,            \* CONFIG_PATH: [kind, doc, mtime]
    cached_config,          \* _cached_config
    config_mtime,           \* _config_mtime
    emulator_active,        \* _emulator_active
    saved_configs_file,     \* SAVED_CONFIGS_PATH: [kind, doc]
    cached_saved_configs,   \* _cached_saved_configs
    models_cache_file,      \* MODELS_CACHE_PATH: [kind, doc]
    cached_models,          \* _cached_models
    \* server/litellm_client.py
    provider_online,        \* _provider_online
    environ,                \* os.environ: the variables that are set
    \* server/logger.py
    last_successful_completion,  \* _last_successful_completion
    last_error,                  \* _last_error
    \* the clock (time.time() in milliseconds, bounded)
    now,
    \* the last call of an operation: its arguments and what it returned
    call,
    requests,               \* chat completion requests served so far
    \* the input and the result of the pure functions under test
    error,                  \* classify_error's argument
    classified,             \* classify_error's result
    request,                \* validate_request's argument
    validation,             \* what validate_request raised, NoExc when it returned
    \* server/main.py: the POST /config/save requests the event loop holds
    in_flight

vars == <<config_file, cached_config, config_mtime, emulator_active,
          saved_configs_file, cached_saved_configs, models_cache_file, cached_models,
          provider_online, environ,
          last_successful_completion, last_error, now, call, requests,
          error, classified, request, validation, in_flight>>

configVars == <<config_file, cached_config, config_mtime, emulator_active>>
presetVars == <<saved_configs_file, cached_saved_configs>>
modelsVars == <<models_cache_file, cached_models>>
clientVars == <<provider_online, environ>>
loggerVars == <<last_successful_completion, last_error>>
pureVars   == <<error, classified, request, validation>>

----------------------------------------------------------------------------
(* Python values *)

None      == [t |-> "None"]
PyStr(s)    == [t |-> "str", s |-> s]
PyInt(n)    == [t |-> "int", n |-> n]
PyBool(b)   == [t |-> "bool", b |-> b]
PyList(xs)  == [t |-> "list", xs |-> xs]
PyDict(d)   == [t |-> "dict", d |-> d]

EmptyDict == [k \in {} |-> None]

\* bool(v): the truth value Python's "if v" / "not v" / "or" uses
Truthy(v) ==
    CASE v.t = "None" -> FALSE
      [] v.t = "str"  -> v.s # ""
      [] v.t = "int"  -> v.n # 0
      [] v.t = "bool" -> v.b
      [] v.t = "list" -> v.xs # <<>>
      [] v.t = "dict" -> DOMAIN v.d # {}

\* d.get(k, default) on a dict's key -> value function
GetOr(d, k, default) == IF k \in DOMAIN d THEN d[k] ELSE default

\* d.get(k)
Get(d, k) == GetOr(d, k, None)

\* {**a, **b}
Merge(a, b) == [k \in DOMAIN a \cup DOMAIN b |-> IF k \in DOMAIN b THEN b[k] ELSE a[k]]

----------------------------------------------------------------------------
(* Python string methods *)

UpperAlpha == "ABCDEFGHIJKLMNOPQRSTUVWXYZ"
LowerAlpha == "abcdefghijklmnopqrstuvwxyz"

CharAt(s, i) == SubSeq(s, i, i)

LowerOf ==
    [c \in {CharAt(UpperAlpha, i) : i \in 1..Len(UpperAlpha)} |->
        CharAt(LowerAlpha, CHOOSE i \in 1..Len(UpperAlpha) : CharAt(UpperAlpha, i) = c)]

\* str.lower() of one character
LowerChar(c) == IF c \in DOMAIN LowerOf THEN LowerOf[c] ELSE c

RECURSIVE StrLower(_)
\* str.lower()
StrLower(s) == IF s = "" THEN "" ELSE LowerChar(Head(s)) \o StrLower(Tail(s))

IsSpace(c) == c \in {" ", "\t", "\n", "\r"}

RECURSIVE LStrip(_)
LStrip(s) == IF s # "" /\ IsSpace(Head(s)) THEN LStrip(Tail(s)) ELSE s

RECURSIVE RStrip(_)
RStrip(s) ==
    IF s # "" /\ IsSpace(CharAt(s, Len(s))) THEN RStrip(SubSeq(s, 1, Len(s) - 1)) ELSE s

\* str.strip()
StrStrip(s) == RStrip(LStrip(s))

\* term in s (substring test)
StrContains(s, term) ==
    \E i \in 1..(Len(s) - Len(term) + 1) : SubSeq(s, i, i + Len(term) - 1) = term

\* any(term in msg for term in terms)
AnyTermIn(msg, terms) == \E i \in 1..Len(terms) : StrContains(msg, terms[i])

----------------------------------------------------------------------------
(* server/litellm_client.py: classify_error *)

\* An exception: str(error) is msg; code is the "code" attribute, or the
\* tag "absent" when the exception has no such attribute.
Absent == [t |-> "absent"]
Exc(cls, msg, code) == [cls |-> cls, msg |-> msg, code |-> code]

network_codes == <<"ECONNREFUSED", "ENOTFOUND", "ETIMEDOUT", "ECONNRESET", "ENETUNREACH", "EAI_AGAIN">>

\* getattr(error, "code", "") or ""
ErrorCode(e) ==
    LET c == IF e.code = Absent THEN PyStr("") ELSE e.code
    IN  IF Truthy(c) THEN c ELSE PyStr("")

\* code in network_codes
InNetworkCodes(c) == c.t = "str" /\ \E i \in 1..Len(network_codes) : network_codes[i] = c.s

classify_error_swapped(e) ==
    LET msg == StrLower(e.msg)
    IN  IF InNetworkCodes(ErrorCode(e)) THEN <<503, "service_unavailable">>
        ELSE IF AnyTermIn(msg, <<"network", "timeout", "connect", "offline", "unavailable", "empty response">>)
             THEN <<503, "service_unavailable">>
        ELSE IF AnyTermIn(msg, <<"invalid", "bad request">>) THEN <<400, "invalid_request_error">>
        ELSE IF AnyTermIn(msg, <<"auth", "token", "unauthorized", "api key">>) THEN <<401, "authentication_error">>
        ELSE IF AnyTermIn(msg, <<"permission", "forbidden">>) THEN <<403, "permission_error">>
        ELSE IF AnyTermIn(msg, <<"rate", "limit", "quota">>) THEN <<429, "rate_limit_error">>
        ELSE IF StrContains(msg, "not found") THEN <<404, "not_found_error">>
        ELSE <<500, "internal_server_error">>

classify_error(e) ==
    LET msg == StrLower(e.msg)
    IN  IF InNetworkCodes(ErrorCode(e)) THEN <<503, "service_unavailable">>
        ELSE IF AnyTermIn(msg, <<"network", "timeout", "connect", "offline", "unavailable", "empty response">>)
             THEN <<503, "service_unavailable">>
        ELSE IF AnyTermIn(msg, <<"auth", "token", "unauthorized", "api key">>) THEN <<401, "authentication_error">>
        ELSE IF AnyTermIn(msg, <<"permission", "forbidden">>) THEN <<403, "permission_error">>
        ELSE IF AnyTermIn(msg, <<"rate", "limit", "quota">>) THEN <<429, "rate_limit_error">>
        ELSE IF AnyTermIn(msg, <<"invalid", "bad request">>) THEN <<400, "invalid_request_error">>
        ELSE IF StrContains(msg, "not found") THEN <<404, "not_found_error">>
        ELSE <<500, "internal_server_error">>

----------------------------------------------------------------------------
(* server/config.py: the configuration document and its cache *)

\* A backing file: kind is "json" (a parseable document, doc), "missing"
\* (FileNotFoundError) or "invalid" (json.JSONDecodeError); mtime is st_mtime.
File(kind, doc, mtime) == [kind |-> kind, doc |-> doc, mtime |-> mtime]

get_default_config ==
    [port |-> PyInt(11434),
     provider |-> PyStr("openai"),
     model |-> PyStr("gpt-4"),
     apiKeyEnvVar |-> PyStr("OPENAI_API_KEY"),
     emulatorActive |-> PyBool(FALSE),
     lastConfig |-> None,
     logging |-> PyDict([enabled |-> PyBool(TRUE),
                         logRequests |-> PyBool(TRUE),
                         logErrors |-> PyBool(TRUE)])]

\* get_config() on the cache (cached, cmtime) and the backing file: the value
\* returned and the cache it leaves.  With a cache, stat() raises for a
\* missing file, an unchanged mtime returns the cache, and _config_mtime is
\* set before the file is read; without one the file is read at once.
get_config_on(cached, cmtime, file) ==
    IF file.kind = "missing"
    THEN [value |-> get_default_config, cached |-> cached, mtime |-> cmtime]
    ELSE IF cached # None /\ cmtime # None /\ cmtime = PyInt(file.mtime)
    THEN [value |-> cached.d, cached |-> cached, mtime |-> cmtime]
    ELSE IF file.kind = "json"
    THEN [value |-> file.doc, cached |-> PyDict(file.doc), mtime |-> PyInt(file.mtime)]
    ELSE [value |-> get_default_config, cached |-> cached,
          mtime |-> IF cached # None THEN PyInt(file.mtime) ELSE cmtime]

get_config == get_config_on(cached_config, config_mtime, config_file)

\* Whether get_config() reaches json.load(f): the file exists and the cache
\* is not returned
get_config_loads(cached, cmtime, file) ==
    /\ file.kind # "missing"
    /\ ~(cached # None /\ cmtime # None /\ cmtime = PyInt(file.mtime))

write_config_cache_first(config, g, io_ok) ==
    IF io_ok
    THEN [ok |-> TRUE, file |-> File("json", config, now),
          cached |-> PyDict(config), mtime |-> PyInt(now)]
    ELSE [ok |-> FALSE, file |-> config_file, cached |-> PyDict(config), mtime |-> g.mtime]

\* The try block of update_config: config is written, or the write fails
\* and the cache stays as get_config (g) left it.
write_config(config, g, io_ok) ==
    IF io_ok
    THEN [ok |-> TRUE, file |-> File("json", config, now),
          cached |-> PyDict(config), mtime |-> PyInt(now)]
    ELSE [ok |-> FALSE, file |-> config_file, cached |-> g.cached, mtime |-> g.mtime]

update_config_over_defaults(updates, io_ok) ==
    write_config(Merge(get_default_config, updates), get_config, io_ok)

\* update_config(updates): io_ok is whether open() and json.dump() succeed.
\* The result: what is returned and the file and cache it leaves.
update_config(updates, io_ok) ==
    write_config(Merge(get_config.value, updates), get_config, io_ok)

\* The file and cache as update_config left them
set_config(u) ==
    /\ config_file' = u.file
    /\ cached_config' = u.cached
    /\ config_mtime' = u.mtime

StartUpdates(provider, model, api_key_env_var) ==
    [provider |-> provider,
     model |-> model,
     apiKeyEnvVar |-> api_key_env_var,
     emulatorActive |-> PyBool(TRUE),
     lastConfig |-> PyDict([provider |-> provider,
                            model |-> model,
                            apiKeyEnvVar |-> api_key_env_var])]

\* start_emulator after its update_config call returned u.ok
started_always(provider, model, api_key_env_var, u) ==
    /\ set_config(u)
    /\ emulator_active' = TRUE

started(provider, model, api_key_env_var, u) ==
    /\ set_config(u)
    /\ emulator_active' = IF u.ok THEN TRUE ELSE emulator_active

\* start_emulator(provider, model, api_key_env_var)
start_emulator(provider, model, api_key_env_var, io_ok) ==
    started(provider, model, api_key_env_var,
            update_config(StartUpdates(provider, model, api_key_env_var), io_ok))

\* stop_emulator after its update_config call returned u.ok
stopped(u) ==
    /\ set_config(u)
    /\ emulator_active' = IF u.ok THEN FALSE ELSE emulator_active
    /\ call' = [op |-> "stop_emulator", result |-> u.ok, before |-> get_config.value]

stop_emulator_forgets(io_ok) ==
    stopped(update_config([emulatorActive |-> PyBool(FALSE), lastConfig |-> None], io_ok))

\* stop_emulator()
stop_emulator(io_ok) == stopped(update_config([emulatorActive |-> PyBool(FALSE)], io_ok))

\* Module load with the configuration file as file: the caches are empty and
\* _init_emulator_state() sets get_config().get("emulatorActive", False) is True
loaded(file, g) ==
    /\ config_file = file
    /\ cached_config = g.cached
    /\ config_mtime = g.mtime
    /\ emulator_active = (GetOr(g.value, "emulatorActive", PyBool(FALSE)) = PyBool(TRUE))

init_emulator_state(file) == loaded(file, get_config_on(None, None, file))

----------------------------------------------------------------------------
(* server/litellm_client.py: the catalog, chat and estimate_tokens *)

\* The catalog, in the order of the dict literal.
ProviderOrder ==
    <<"openai", "anthropic", "groq", "mistral", "google", "cohere", "together_ai", "openrouter", "deepseek", "cerebras">>

SUPPORTED_PROVIDERS ==
    "openai" :> [name |-> "OpenAI", envVar |-> "OPENAI_API_KEY",
        models |-> <<
            [id |-> "gpt-4", label |-> "GPT-4"],
            [id |-> "gpt-4-turbo", label |-> "GPT-4 Turbo"],
            [id |-> "gpt-4o", label |-> "GPT-4o"],
            [id |-> "gpt-4o-mini", label |-> "GPT-4o Mini"],
            [id |-> "gpt-3.5-turbo", label |-> "GPT-3.5 Turbo"],
            [id |-> "o1", label |-> "o1"],
            [id |-> "o1-mini", label |-> "o1 Mini"],
            [id |-> "o1-preview", label |-> "o1 Preview"]>>]
    @@ "anthropic" :> [name |-> "Anthropic", envVar |-> "ANTHROPIC_API_KEY",
        models |-> <<
            [id |-> "claude-3-5-sonnet-20241022", label |-> "Claude 3.5 Sonnet"],
            [id |-> "claude-3-5-haiku-20241022", label |-> "Claude 3.5 Haiku"],
            [id |-> "claude-3-opus-20240229", label |-> "Claude 3 Opus"],
            [id |-> "claude-3-sonnet-20240229", label |-> "Claude 3 Sonnet"],
            [id |-> "claude-3-haiku-20240307", label |-> "Claude 3 Haiku"]>>]
    @@ "groq" :> [name |-> "Groq", envVar |-> "GROQ_API_KEY",
        models |-> <<
            [id |-> "llama-3.3-70b-versatile", label |-> "Llama 3.3 70B"],
            [id |-> "llama-3.1-70b-versatile", label |-> "Llama 3.1 70B"],
            [id |-> "llama-3.1-8b-instant", label |-> "Llama 3.1 8B"],
            [id |-> "mixtral-8x7b-32768", label |-> "Mixtral 8x7B"],
            [id |-> "gemma2-9b-it", label |-> "Gemma 2 9B"]>>]
    @@ "mistral" :> [name |-> "Mistral", envVar |-> "MISTRAL_API_KEY",
        models |-> <<
            [id |-> "mistral-large-latest", label |-> "Mistral Large"],
            [id |-> "mistral-medium-latest", label |-> "Mistral Medium"],
            [id |-> "mistral-small-latest", label |-> "Mistral Small"],
            [id |-> "open-mixtral-8x22b", label |-> "Mixtral 8x22B"],
            [id |-> "open-mixtral-8x7b", label |-> "Mixtral 8x7B"],
            [id |-> "codestral-latest", label |-> "Codestral"]>>]
    @@ "google" :> [name |-> "Google (Gemini)", envVar |-> "GEMINI_API_KEY",
        models |-> <<
            [id |-> "gemini-1.5-pro", label |-> "Gemini 1.5 Pro"],
            [id |-> "gemini-1.5-flash", label |-> "Gemini 1.5 Flash"],
            [id |-> "gemini-1.0-pro", label |-> "Gemini 1.0 Pro"]>>]
    @@ "cohere" :> [name |-> "Cohere", envVar |-> "COHERE_API_KEY",
        models |-> <<
            [id |-> "command-r-plus", label |-> "Command R+"],
            [id |-> "command-r", label |-> "Command R"],
            [id |-> "command", label |-> "Command"],
            [id |-> "command-light", label |-> "Command Light"]>>]
    @@ "together_ai" :> [name |-> "Together AI", envVar |-> "TOGETHER_API_KEY",
        models |-> <<
            [id |-> "meta-llama/Llama-3.3-70B-Instruct-Turbo", label |-> "Llama 3.3 70B"],
            [id |-> "meta-llama/Meta-Llama-3.1-405B-Instruct-Turbo", label |-> "Llama 3.1 405B"],
            [id |-> "mistralai/Mixtral-8x22B-Instruct-v0.1", label |-> "Mixtral 8x22B"],
            [id |-> "Qwen/Qwen2.5-72B-Instruct-Turbo", label |-> "Qwen 2.5 72B"]>>]
    @@ "openrouter" :> [name |-> "OpenRouter", envVar |-> "OPENROUTER_API_KEY",
        models |-> <<
            [id |-> "openai/gpt-4-turbo", label |-> "GPT-4 Turbo"],
            [id |-> "anthropic/claude-3.5-sonnet", label |-> "Claude 3.5 Sonnet"],
            [id |-> "google/gemini-pro-1.5", label |-> "Gemini 1.5 Pro"],
            [id |-> "meta-llama/llama-3.1-405b-instruct", label |-> "Llama 3.1 405B"]>>]
    @@ "deepseek" :> [name |-> "DeepSeek", envVar |-> "DEEPSEEK_API_KEY",
        models |-> <<
            [id |-> "deepseek-chat", label |-> "DeepSeek Chat"],
            [id |-> "deepseek-coder", label |-> "DeepSeek Coder"]>>]
    @@ "cerebras" :> [name |-> "Cerebras", envVar |-> "CEREBRAS_API_KEY",
        models |-> <<
            [id |-> "llama3.1-8b", label |-> "Llama 3.1 8B"],
            [id |-> "llama3.1-70b", label |-> "Llama 3.1 70B"]>>]

\* str(v) as an f-string prints it
PyToStr(v) ==
    CASE v.t = "str"  -> v.s
      [] v.t = "int"  -> ToString(v.n)
      [] v.t = "None" -> "None"
      [] v.t = "bool" -> IF v.b THEN "True" ELSE "False"
      [] OTHER        -> "<object>"

\* provider in SUPPORTED_PROVIDERS
IsSupported(provider) == provider.t = "str" /\ provider.s \in DOMAIN SUPPORTED_PROVIDERS

ModelPrefix ==
    [p \in DOMAIN SUPPORTED_PROVIDERS |->
        CASE p = "openai"      -> ""
          [] p = "anthropic"   -> ""
          [] p = "groq"        -> "groq/"
          [] p = "mistral"     -> "mistral/"
          [] p = "google"      -> "gemini/"
          [] p = "cohere"      -> "cohere/"
          [] p = "together_ai" -> "together_ai/"
          [] p = "openrouter"  -> "openrouter/"
          [] p = "deepseek"    -> "deepseek/"
          [] p = "cerebras"    -> "cerebras/"]

\* get_provider_model_string(provider, model): openai and anthropic return the
\* model itself; the prefixed ones an f-string; an unknown provider the model.
get_provider_model_string(provider, model) ==
    IF IsSupported(provider) /\ ModelPrefix[provider.s] # ""
    THEN PyStr(ModelPrefix[provider.s] \o PyToStr(model))
    ELSE model

\* os.environ.get(name)
EnvGet(name) == IF name \in DOMAIN environ THEN PyStr(environ[name]) ELSE None

\* _provider_online[provider] = value
SetOnline(online, provider, value) ==
    [k \in DOMAIN online \cup {provider} |-> IF k = provider THEN value ELSE online[k]]

NoExc == [cls |-> "none"]

\* a or b
PyOr(a, b) == IF Truthy(a) THEN a ELSE b

\* What litellm.completion() does when called: it raises exc, or returns a
\* response whose first choice's content is content (None for no choice or no
\* content) and whose usage is usage (None, or the three counts).
Raises(exc) == [kind |-> "raise", exc |-> exc]
Returns(content, usage) == [kind |-> "response", content |-> content, usage |-> usage]

\* chat: the API key, from the options or from the environment variable the
\* catalog names for the provider
chat_api_key(provider, options) ==
    IF ~Truthy(Get(options, "api_key")) /\ IsSupported(provider)
    THEN EnvGet(SUPPORTED_PROVIDERS[provider.s].envVar)
    ELSE Get(options, "api_key")

\* chat: the keyword arguments of completion()
completion_options(provider, options, messages, api_key) ==
    Merge(Merge([model |-> get_provider_model_string(provider, GetOr(options, "model", PyStr("gpt-4"))),
                 messages |-> messages,
                 api_key |-> api_key],
                IF Get(options, "temperature") # None
                THEN [temperature |-> options["temperature"]] ELSE EmptyDict),
          IF Get(options, "max_tokens") # None
          THEN [max_tokens |-> options["max_tokens"]] ELSE EmptyDict)

\* chat: the usage dict built from response.usage
extract_usage(u) ==
    IF u = None THEN None
    ELSE PyDict([prompt_tokens |-> PyOr(u.prompt_tokens, PyInt(0)),
                 completion_tokens |-> PyOr(u.completion_tokens, PyInt(0)),
                 total_tokens |->
                    IF ~Truthy(PyOr(u.total_tokens, PyInt(0)))
                    THEN PyInt(PyOr(u.prompt_tokens, PyInt(0)).n
                               + PyOr(u.completion_tokens, PyInt(0)).n)
                    ELSE u.total_tokens])

chat_call_allows_empty(provider, kwargs, api_key, backend, online) ==
    IF ~Truthy(api_key)
    THEN [exc |-> Exc("ValueError", "No API key found for provider '" \o PyToStr(provider) \o "'", Absent),
          result |-> None, completions |-> <<>>, online |-> online]
    ELSE IF backend.kind = "raise"
    THEN [exc |-> backend.exc, result |-> None, completions |-> <<kwargs>>,
          online |-> SetOnline(online, provider.s, FALSE)]
    ELSE [exc |-> NoExc,
          result |-> [text |-> PyOr(backend.content, PyStr("")),
                      usage |-> extract_usage(backend.usage)],
          completions |-> <<kwargs>>,
          online |-> SetOnline(online, provider.s, TRUE)]

\* chat from the API key check on: the exception raised (NoExc for none), the
\* value returned, the completion() calls made and the connectivity map left
chat_call(provider, kwargs, api_key, backend, online) ==
    IF ~Truthy(api_key)
    THEN [exc |-> Exc("ValueError", "No API key found for provider '" \o PyToStr(provider) \o "'", Absent),
          result |-> None, completions |-> <<>>, online |-> online]
    ELSE IF backend.kind = "raise"
    THEN [exc |-> backend.exc, result |-> None, completions |-> <<kwargs>>,
          online |-> SetOnline(online, provider.s, FALSE)]
    ELSE IF ~Truthy(backend.content)
    THEN [exc |-> Exc("ValueError", "Backend returned empty response", Absent),
          result |-> None, completions |-> <<kwargs>>,
          online |-> SetOnline(online, provider.s, FALSE)]
    ELSE [exc |-> NoExc,
          result |-> [text |-> backend.content, usage |-> extract_usage(backend.usage)],
          completions |-> <<kwargs>>,
          online |-> SetOnline(online, provider.s, TRUE)]

chat_as(provider, messages, options, backend, online) ==
    chat_call(provider,
              completion_options(provider, options, messages, chat_api_key(provider, options)),
              chat_api_key(provider, options), backend, online)

\* chat(messages, options) with the backend behaving as backend
chat(messages, options, backend, online) ==
    chat_as(GetOr(options, "provider", PyStr("openai")), messages, options, backend, online)

\* estimate_tokens(text): ceil(len(text) / 4), 0 for an empty or absent text
estimate_tokens(text) ==
    IF ~Truthy(text) THEN 0 ELSE (Len(text.s) + 3) \div 4

----------------------------------------------------------------------------
(* server/logger.py *)

\* config.get("logging", {}).get(name, True), as a truth value
LoggingOn(config, name) ==
    Truthy(GetOr(GetOr(config, "logging", PyDict(EmptyDict)).d, name, PyBool(TRUE)))

\* log_error after config = _get_config() returned g
error_logged(e, context, g) ==
    [cached |-> g.cached, mtime |-> g.mtime,
     events |-> IF LoggingOn(g.value, "logErrors") THEN <<"ERROR">> ELSE <<>>,
     last_error |-> IF LoggingOn(g.value, "logErrors")
                    THEN [timestamp |-> now, message |-> e.msg, context |-> context]
                    ELSE last_error]

\* log_error(error, context) with the configuration cache as (cached, cmtime):
\* the cache left, the events printed and the health snapshot's last error
log_error(e, context, cached, cmtime) ==
    error_logged(e, context, get_config_on(cached, cmtime, config_file))

\* log_request after config = _get_config() returned g
request_logged(g) ==
    [cached |-> g.cached, mtime |-> g.mtime,
     events |-> IF LoggingOn(g.value, "logRequests") THEN <<"REQUEST">> ELSE <<>>]

\* log_request(data)
log_request(cached, cmtime) == request_logged(get_config_on(cached, cmtime, config_file))

\* log_success after config = _get_config() returned g
success_logged(data, g) ==
    [cached |-> g.cached, mtime |-> g.mtime,
     events |-> IF LoggingOn(g.value, "enabled") THEN <<"SUCCESS">> ELSE <<>>,
     last_successful_completion |->
        IF LoggingOn(g.value, "enabled")
        THEN [timestamp |-> now, provider |-> data.provider, model |-> data.model,
              tokens |-> [promptTokens |-> data.promptTokens,
                          completionTokens |-> data.completionTokens,
                          totalTokens |-> data.totalTokens]]
        ELSE last_successful_completion]

\* log_success(data)
log_success(data, cached, cmtime) ==
    success_logged(data, get_config_on(cached, cmtime, config_file))

----------------------------------------------------------------------------
(* server/openai_adapter.py *)

\* ValidationError(message): status_code 400, type invalid_request_error
ValidationError(message) ==
    [cls |-> "ValidationError", msg |-> message, code |-> Absent,
     status_code |-> 400, type |-> "invalid_request_error"]

\* type(v).__name__
TypeName(v) ==
    CASE v.t = "None" -> "NoneType"
      [] v.t = "str"  -> "str"
      [] v.t = "int"  -> "int"
      [] v.t = "bool" -> "bool"
      [] v.t = "list" -> "list"
      [] v.t = "dict" -> "dict"

\* v.get(...) on a value that is no dict
NoGetAttr(v) ==
    Exc("AttributeError", "'" \o TypeName(v) \o "' object has no attribute 'get'", Absent)

model_missing_none_only(model) == model = None

\* not model or not isinstance(model, str) or not model.strip()
model_missing(model) == ~Truthy(model) \/ model.t # "str" \/ StrStrip(model.s) = ""

no_input_unchecked(body) == FALSE

\* not body.get("messages") and not body.get("prompt")
no_input(body) == ~Truthy(Get(body, "messages")) /\ ~Truthy(Get(body, "prompt"))

message_incomplete_falsy(msg) == "role" \notin DOMAIN msg \/ ~Truthy(Get(msg, "content"))

\* "role" not in msg or msg.get("content") is None
message_incomplete(msg) == "role" \notin DOMAIN msg \/ Get(msg, "content") = None

\* The first message the loop of validate_request rejects, or NoExc
RECURSIVE CheckMessages(_)
CheckMessages(msgs) ==
    IF msgs = <<>> THEN NoExc
    ELSE IF Head(msgs).t # "dict" THEN ValidationError("Each message must be an object")
    ELSE IF message_incomplete(Head(msgs).d)
    THEN ValidationError("Each message must have role and content fields")
    ELSE CheckMessages(Tail(msgs))

\* validate_request from "messages = body.get('messages')" on
validate_messages(messages) ==
    IF messages = None THEN NoExc
    ELSE IF messages.t # "list" THEN ValidationError("messages must be a non-empty array")
    ELSE IF Len(messages.xs) = 0 THEN ValidationError("messages must be a non-empty array")
    ELSE CheckMessages(messages.xs)

\* validate_request(body): the exception it raises, or NoExc when it returns True
validate_request(body) ==
    IF ~Truthy(body) THEN ValidationError("Request body is required")
    ELSE IF body.t # "dict" THEN NoGetAttr(body)
    ELSE IF model_missing(Get(body.d, "model")) THEN ValidationError("model field is required")
    ELSE IF no_input(body.d) THEN ValidationError("Either messages or prompt field is required")
    ELSE validate_messages(Get(body.d, "messages"))

\* create_error_response(error, status_code, error_type)
create_error_response(e, status_code, error_type) ==
    [statusCode |-> status_code,
     body |-> [error |-> [message |-> IF e.msg # "" THEN e.msg ELSE "An error occurred",
                          type |-> error_type,
                          code |-> IF e.code = Absent THEN None ELSE e.code]]]

\* generate_completion_id(): chatcmpl-{timestamp}-{random7}
generate_completion_id(random_chars) ==
    "chatcmpl-" \o ToString(now) \o "-" \o random_chars

\* " ".join(m.get("content", "") for m in input_messages) from the i-th
\* message on: the text, or the TypeError of the first content that is no string
RECURSIVE JoinContents(_, _)
JoinContents(msgs, i) ==
    IF i > Len(msgs) THEN [exc |-> NoExc, text |-> ""]
    ELSE IF GetOr(msgs[i].d, "content", PyStr("")).t # "str"
    THEN [exc |-> Exc("TypeError", "sequence item " \o ToString(i - 1) \o ": expected str instance, "
                          \o TypeName(msgs[i].d["content"]) \o " found", Absent),
          text |-> ""]
    ELSE IF i = Len(msgs)
    THEN [exc |-> NoExc, text |-> GetOr(msgs[i].d, "content", PyStr("")).s]
    ELSE [exc |-> JoinContents(msgs, i + 1).exc,
          text |-> GetOr(msgs[i].d, "content", PyStr("")).s \o " " \o JoinContents(msgs, i + 1).text]

\* What one invocation of handle_chat_completion leaves: the exception that
\* escapes it (NoExc when it returns), the response returned, the completion()
\* calls made, the log events printed, and the module state.
Outcome(raised, response, completions, events, cached, cmtime, online, lsc, le) ==
    [raised |-> raised, response |-> response, completions |-> completions,
     events |-> events, cached |-> cached, mtime |-> cmtime, online |-> online,
     last_successful_completion |-> lsc, last_error |-> le]

\* The response an except clause builds: ValidationError carries its own
\* status and type, anything else is classified
error_response(e) ==
    IF e.cls = "ValidationError"
    THEN create_error_response(e, e.status_code, e.type)
    ELSE create_error_response(e, classify_error(e)[1], classify_error(e)[2])

\* An except clause after log_error returned l
except_logged(e, completions, events, online, l) ==
    Outcome(NoExc, error_response(e), completions, events \o l.events, l.cached, l.mtime,
            online, last_successful_completion, l.last_error)

\* The two except clauses of handle_chat_completion, entered with exception e.
\* The context dict is built first: request_body.get raises for a body that
\* is no dict, and an exception raised inside an except clause escapes.
except_clauses(e, request_body, completions, events, cached, cmtime, online) ==
    IF request_body.t # "dict"
    THEN Outcome(NoGetAttr(request_body), None, completions, events, cached, cmtime,
                 online, last_successful_completion, last_error)
    ELSE except_logged(e, completions, events, online,
                       log_error(e, [endpoint |-> "/v1/chat/completions",
                                     requestedModel |-> Get(request_body.d, "model")],
                                 cached, cmtime))

backend_model_requested(config, body) == GetOr(body, "model", PyStr(""))

\* The model the backend call uses: model = config.get("model", "gpt-4")
backend_model(config, body) == GetOr(config, "model", PyStr("gpt-4"))

\* response_model = requested_model
response_model(config, requested_model) == requested_model

\* request_body.get("max_tokens") or request_body.get("max_completion_tokens")
max_tokens_of(body) == PyOr(Get(body, "max_tokens"), Get(body, "max_completion_tokens"))

\* The options dict handed to chat
chat_options(config, body) ==
    Merge(Merge([provider |-> GetOr(config, "provider", PyStr("openai")),
                 model |-> backend_model(config, body),
                 api_key |-> None],
                IF Get(body, "temperature") # None
                THEN [temperature |-> body["temperature"]] ELSE EmptyDict),
          IF max_tokens_of(body) # None
          THEN [max_tokens |-> max_tokens_of(body)] ELSE EmptyDict)

\* messages, or the prompt converted to one user message
input_messages_of(body) ==
    IF Truthy(Get(body, "messages")) THEN body["messages"].xs
    ELSE <<PyDict([role |-> PyStr("user"), content |-> Get(body, "prompt")])>>

\* The usage estimated from the joined prompt text and the produced text
estimated_usage(prompt_text, text) ==
    [prompt_tokens |-> PyInt(estimate_tokens(PyStr(prompt_text))),
     completion_tokens |-> PyInt(estimate_tokens(text)),
     total_tokens |-> PyInt(estimate_tokens(PyStr(prompt_text)) + estimate_tokens(text))]

\* The 200 response
completion_response(body, config, text, usage, random_chars) ==
    [statusCode |-> 200,
     body |-> [id |-> generate_completion_id(random_chars),
               object |-> "chat.completion",
               created |-> now \div 1000,
               model |-> response_model(config, GetOr(body, "model", PyStr(""))),
               choices |-> <<[index |-> 0,
                              message |-> [role |-> "assistant", content |-> text],
                              finish_reason |-> "stop"]>>,
               usage |-> usage]]

\* The try block after log_success returned ls
success_returned(body, config, c, usage, random_chars, events, ls) ==
    Outcome(NoExc, completion_response(body, config, c.result.text, usage, random_chars),
            c.completions, events \o ls.events, ls.cached, ls.mtime, c.online,
            ls.last_successful_completion, last_error)

\* The try block once usage is known
usage_known(body, config, c, usage, random_chars, lr) ==
    success_returned(body, config, c, usage, random_chars, lr.events,
                     log_success([provider |-> GetOr(config, "provider", PyStr("openai")),
                                  model |-> backend_model(config, body),
                                  promptTokens |-> usage.prompt_tokens,
                                  completionTokens |-> usage.completion_tokens,
                                  totalTokens |-> usage.total_tokens],
                                 lr.cached, lr.mtime))

\* The else branch of "if result.get('usage')" after the join gave joined
usage_estimated(request_body, config, c, joined, random_chars, lr) ==
    IF joined.exc # NoExc
    THEN except_clauses(joined.exc, request_body, c.completions, lr.events,
                        lr.cached, lr.mtime, c.online)
    ELSE usage_known(request_body.d, config, c, estimated_usage(joined.text, c.result.text),
                     random_chars, lr)

\* The try block after chat returned or raised (c)
chat_returned(request_body, config, c, random_chars, lr) ==
    IF c.exc # NoExc
    THEN except_clauses(c.exc, request_body, c.completions, lr.events,
                        lr.cached, lr.mtime, c.online)
    ELSE IF Truthy(c.result.usage)
    THEN usage_known(request_body.d, config, c, c.result.usage.d, random_chars, lr)
    ELSE usage_estimated(request_body, config, c,
                         JoinContents(input_messages_of(request_body.d), 1), random_chars, lr)

\* The try block after log_request returned lr
request_was_logged(request_body, config, backend, random_chars, lr) ==
    chat_returned(request_body, config,
                  chat(input_messages_of(request_body.d), chat_options(config, request_body.d),
                       backend, provider_online),
                  random_chars, lr)

\* The try block after config = get_config() returned g
config_read(request_body, backend, random_chars, g) ==
    request_was_logged(request_body, g.value, backend, random_chars,
                       log_request(g.cached, g.mtime))

\* The try block after validate_request raised v or returned (NoExc)
validated(request_body, backend, random_chars, v) ==
    IF v # NoExc
    THEN except_clauses(v, request_body, <<>>, <<>>, cached_config, config_mtime, provider_online)
    ELSE config_read(request_body, backend, random_chars, get_config)

is_emulator_active_always == TRUE

is_emulator_active == emulator_active

handle_chat_completion_validates_first(request_body, backend, random_chars) ==
    IF is_emulator_active \/ validate_request(request_body) # NoExc
    THEN validated(request_body, backend, random_chars, validate_request(request_body))
    ELSE Outcome(NoExc,
                 create_error_response(
                     Exc("Exception", "Emulator is not active. Start it from the configuration UI.", Absent),
                     503, "service_unavailable"),
                 <<>>, <<>>, cached_config, config_mtime, provider_online,
                 last_successful_completion, last_error)

\* handle_chat_completion(request_body), with the backend behaving as backend
\* and random_chars the characters drawn for the completion id.
handle_chat_completion(request_body, backend, random_chars) ==
    IF ~is_emulator_active
    THEN Outcome(NoExc,
                 create_error_response(
                     Exc("Exception", "Emulator is not active. Start it from the configuration UI.", Absent),
                     503, "service_unavailable"),
                 <<>>, <<>>, cached_config, config_mtime, provider_online,
                 last_successful_completion, last_error)
    ELSE validated(request_body, backend, random_chars, validate_request(request_body))

----------------------------------------------------------------------------
(* server/config.py: the saved configuration presets *)

\* The presets file: kind as for File, doc the list it holds
PresetFile(kind, doc) == [kind |-> kind, doc |-> doc]

\* generate_id(): cfg-{timestamp}-{random6}
generate_id_at(ms, random_chars) == "cfg-" \o ToString(ms) \o "-" \o random_chars

generate_id(random_chars) == generate_id_at(now, random_chars)

\* get_saved_configs() on the cache and the backing file: the list returned
\* and the cache left.  A file that is missing, cannot be parsed or holds no
\* list gives a fresh empty list that is not cached.
get_saved_configs_on(cached, file) ==
    IF cached # None THEN [value |-> cached.xs, cached |-> cached]
    ELSE IF file.kind = "json" THEN [value |-> file.doc, cached |-> PyList(file.doc)]
    ELSE [value |-> <<>>, cached |-> None]

get_saved_configs == get_saved_configs_on(cached_saved_configs, saved_configs_file)

\* save_saved_configs(configs), entered with the cache as cached: what it
\* returns and the file and cache it leaves
save_saved_configs(configs, cached, io_ok) ==
    IF io_ok
    THEN [result |-> TRUE, file |-> PresetFile("json", configs), cached |-> PyList(configs)]
    ELSE [result |-> FALSE, file |-> saved_configs_file, cached |-> cached]

\* The index of the first preset whose id is config_id, 0 for none
FirstWithId(configs, config_id) ==
    IF \E i \in 1..Len(configs) : Get(configs[i], "id") = config_id
    THEN CHOOSE i \in 1..Len(configs) :
            /\ Get(configs[i], "id") = config_id
            /\ \A j \in 1..(i - 1) : Get(configs[j], "id") # config_id
    ELSE 0

\* next((c for c in configs if c.get("id") == config_id), None)
found_in(configs, i) == IF i = 0 THEN None ELSE PyDict(configs[i])

\* get_saved_config_by_id(config_id): the preset, or None
get_saved_config_by_id(config_id) ==
    found_in(get_saved_configs.value, FirstWithId(get_saved_configs.value, config_id))

\* add_saved_config after save_saved_configs returned w
added(new_config, w) ==
    [result |-> IF w.result THEN PyDict(new_config) ELSE None,
     file |-> w.file, cached |-> w.cached]

\* add_saved_config after configs = get_saved_configs() returned g:
\* configs.append mutates the list returned, which is the cached list
\* whenever there is one
add_to(g, new_config, io_ok) ==
    added(new_config,
          save_saved_configs(Append(g.value, new_config),
                             IF g.cached # None THEN PyList(Append(g.value, new_config)) ELSE None,
                             io_ok))

\* add_saved_config(name, provider, model, api_key_env_var)
add_saved_config(name, provider, model, api_key_env_var, random_chars, io_ok) ==
    add_to(get_saved_configs,
           [id |-> PyStr(generate_id(random_chars)),
            name |-> name,
            provider |-> provider,
            model |-> model,
            apiKeyEnvVar |-> api_key_env_var],
           io_ok)

updated_fields_symmetric(config, new_name, provider, model, api_key_env_var) ==
    Merge(config,
          Merge(Merge(IF Truthy(new_name) THEN [name |-> new_name] ELSE EmptyDict,
                      IF Truthy(provider) THEN [provider |-> provider] ELSE EmptyDict),
                Merge(IF Truthy(model) THEN [model |-> model] ELSE EmptyDict,
                      IF Truthy(api_key_env_var)
                      THEN [apiKeyEnvVar |-> api_key_env_var] ELSE EmptyDict)))

\* The four conditional assignments of update_saved_config
updated_fields(config, new_name, provider, model, api_key_env_var) ==
    Merge(config,
          Merge(Merge(IF Truthy(new_name) THEN [name |-> new_name] ELSE EmptyDict,
                      IF Truthy(provider) THEN [provider |-> provider] ELSE EmptyDict),
                Merge(IF Truthy(model) THEN [model |-> model] ELSE EmptyDict,
                      IF api_key_env_var # None
                      THEN [apiKeyEnvVar |-> api_key_env_var] ELSE EmptyDict)))

\* save_saved_configs(configs) on a list that was mutated in place
save_mutated(configs, io_ok) == save_saved_configs(configs, PyList(configs), io_ok)

\* update_saved_config after the search gave index i (0 for None) in g.value
update_at(g, i, new_name, provider, model, api_key_env_var, io_ok) ==
    IF i = 0
    THEN [result |-> FALSE, file |-> saved_configs_file, cached |-> g.cached]
    ELSE save_mutated([g.value EXCEPT ![i] =
                          updated_fields(g.value[i], new_name, provider, model, api_key_env_var)],
                      io_ok)

\* update_saved_config(config_id, new_name, provider, model, api_key_env_var)
update_saved_config(config_id, new_name, provider, model, api_key_env_var, io_ok) ==
    update_at(get_saved_configs, FirstWithId(get_saved_configs.value, config_id),
              new_name, provider, model, api_key_env_var, io_ok)

\* [c for c in configs if c.get("id") != config_id]
RECURSIVE WithoutId(_, _)
WithoutId(configs, config_id) ==
    IF configs = <<>> THEN <<>>
    ELSE IF Get(Head(configs), "id") # config_id
         THEN <<Head(configs)>> \o WithoutId(Tail(configs), config_id)
         ELSE WithoutId(Tail(configs), config_id)

delete_filtered_unchecked(g, filtered, io_ok) == save_saved_configs(filtered, g.cached, io_ok)

\* delete_saved_config after the list was filtered
delete_filtered(g, filtered, io_ok) ==
    IF Len(filtered) = Len(g.value)
    THEN [result |-> FALSE, file |-> saved_configs_file, cached |-> g.cached]
    ELSE save_saved_configs(filtered, g.cached, io_ok)

\* delete_saved_config(config_id)
delete_saved_config(config_id, io_ok) ==
    delete_filtered(get_saved_configs, WithoutId(get_saved_configs.value, config_id), io_ok)

----------------------------------------------------------------------------
(* server/config.py: the models cache *)

\* MODELS_CACHE_PATH: missing, text that is no JSON, or a JSON object
ModelsFile(kind, doc) == [kind |-> kind, doc |-> doc]

\* get_models_cache() on the cache and the backing file: the dict returned
\* and the cache left
get_models_cache_on(cached, file) ==
    IF cached # None THEN [value |-> cached.d, cached |-> cached]
    ELSE IF file.kind = "json" /\ Get(file.doc, "models").t = "list"
    THEN [value |-> file.doc, cached |-> PyDict(file.doc)]
    ELSE [value |-> [models |-> PyList(<<>>), lastUpdated |-> None], cached |-> None]

get_models_cache == get_models_cache_on(cached_models, models_cache_file)

\* save_models_cache after the cache dict was built
models_cache_saved(cache, io_ok) ==
    IF io_ok
    THEN [result |-> TRUE, file |-> ModelsFile("json", cache), cached |-> PyDict(cache)]
    ELSE [result |-> FALSE, file |-> models_cache_file, cached |-> cached_models]

\* save_models_cache(models): io_ok is whether open() and json.dump() succeed
save_models_cache(models, io_ok) ==
    models_cache_saved([lastUpdated |-> PyInt(now), models |-> models], io_ok)

\* is_models_cache_stale after cache = get_models_cache() returned g
stale_inclusive(g, ttl_ms) ==
    [result |-> IF Get(g.value, "lastUpdated") = None THEN TRUE
                ELSE now - g.value["lastUpdated"].n >= ttl_ms,
     cached |-> g.cached]

stale(g, ttl_ms) ==
    [result |-> IF Get(g.value, "lastUpdated") = None THEN TRUE
                ELSE now - g.value["lastUpdated"].n > ttl_ms,
     cached |-> g.cached]

\* is_models_cache_stale(ttl_ms): time.time() * 1000 is the clock now
is_models_cache_stale(ttl_ms) == stale(get_models_cache, ttl_ms)

----------------------------------------------------------------------------
(* server/main.py: POST /config/save *)

config_save_updates_unfiltered(body) == body

\* The updates dict config_save builds from the request body
config_save_updates(body) ==
    [k \in DOMAIN body \cap {"provider", "model", "apiKeyEnvVar", "port"} |-> body[k]]

\* config_save after update_config returned u.ok
config_saved(updates, u) ==
    /\ set_config(u)
    /\ call' = [op |-> "config_save", updates |-> updates, result |-> u.ok]

\* config_save(request)
config_save(body, io_ok) ==
    config_saved(config_save_updates(body), update_config(config_save_updates(body), io_ok))

----------------------------------------------------------------------------
(* server/litellm_client.py: check_connectivity and list_models;
   server/main.py: POST /emulator/start *)

\* is_provider_online(provider): _provider_online.get(provider, False)
is_provider_online(provider) ==
    IF provider.t = "str" /\ provider.s \in DOMAIN provider_online
    THEN provider_online[provider.s] ELSE FALSE

\* The dicts list_models appends for the catalog provider prov
models_of(prov) ==
    [i \in DOMAIN SUPPORTED_PROVIDERS[prov].models |->
        [id |-> SUPPORTED_PROVIDERS[prov].models[i].id,
         label |-> SUPPORTED_PROVIDERS[prov].models[i].label,
         provider |-> prov,
         providerName |-> SUPPORTED_PROVIDERS[prov].name]]

\* list_models(None): the loop over SUPPORTED_PROVIDERS.keys() from the i-th
\* provider on
RECURSIVE models_from(_)
models_from(i) ==
    IF i > Len(ProviderOrder) THEN <<>>
    ELSE models_of(ProviderOrder[i]) \o models_from(i + 1)

list_models_known_or_all(provider) ==
    IF IsSupported(provider) THEN models_of(provider.s) ELSE models_from(1)

\* list_models(provider): a truthy provider is the only one checked, and is
\* skipped when it is not in the catalog
list_models(provider) ==
    IF Truthy(provider)
    THEN IF IsSupported(provider) THEN models_of(provider.s) ELSE <<>>
    ELSE models_from(1)

----------------------------------------------------------------------------
(* server/main.py: get_models behind GET /models *)

MODELS_TTL_MS == 1800000

\* A dict list_models built, as a Python value
ModelDict(m) == PyDict([k \in DOMAIN m |-> PyStr(m[k])])

\* normalize_model for a dict whose id, model or name gave model_id
normalized_as(model, model_id) ==
    IF ~Truthy(model_id) THEN None
    ELSE PyDict(
        [id |-> model_id,
         label |-> PyOr(PyOr(PyOr(Get(model.d, "label"), Get(model.d, "title")),
                             Get(model.d, "display_name")),
                        model_id),
         provider |-> PyOr(Get(model.d, "provider"), PyStr("unknown")),
         providerName |-> PyOr(PyOr(Get(model.d, "providerName"), Get(model.d, "provider")),
                               PyStr("Unknown"))])

\* normalize_model(model)
normalize_model(model) ==
    IF ~Truthy(model) THEN None
    ELSE IF model.t = "str"
    THEN PyDict([id |-> model, label |-> model, provider |-> PyStr("unknown")])
    ELSE normalized_as(model, PyOr(PyOr(Get(model.d, "id"), Get(model.d, "model")),
                                   Get(model.d, "name")))

\* The two list comprehensions of get_models: every model normalized, the
\* None results dropped
RECURSIVE normalized(_)
normalized(models) ==
    IF models = <<>> THEN <<>>
    ELSE IF normalize_model(ModelDict(Head(models))) = None THEN normalized(Tail(models))
    ELSE <<normalize_model(ModelDict(Head(models)))>> \o normalized(Tail(models))

\* get_models after save_models_cache(normalized) returned w; g is what
\* get_models_cache() had returned
models_refreshed(g, models, w) ==
    [models |-> models, source |-> "litellm",
     file |-> w.file, cached |-> IF w.result THEN w.cached ELSE g.cached]

\* not force and cache.get("models") and not is_models_cache_stale(MODELS_TTL_MS)
models_fresh(g, force) ==
    /\ ~force
    /\ Truthy(GetOr(g.value, "models", None))
    /\ ~stale(g, MODELS_TTL_MS).result

\* get_models after cache = get_models_cache() returned g.  list_models and
\* normalize_model raise nothing for a provider that is a string or None, so
\* the except clause is not entered.
got_models(g, provider, force, io_ok) ==
    IF models_fresh(g, force)
    THEN [models |-> g.value["models"].xs, source |-> "cache",
          file |-> models_cache_file, cached |-> g.cached]
    ELSE models_refreshed(g, normalized(list_models(provider)),
                          save_models_cache(PyList(normalized(list_models(provider))), io_ok))

\* get_models(provider, force)
get_models(provider, force, io_ok) == got_models(get_models_cache, provider, force, io_ok)

probed_sticky(provider, probe) ==
    IF probe.kind = "response"
    THEN [ok |-> TRUE, online |-> SetOnline(provider_online, provider.s, TRUE)]
    ELSE [ok |-> FALSE, online |-> provider_online]

\* check_connectivity after completion() was called with the provider's key
probed(provider, probe) ==
    IF probe.kind = "response"
    THEN [ok |-> TRUE, online |-> SetOnline(provider_online, provider.s, TRUE)]
    ELSE [ok |-> FALSE, online |-> SetOnline(provider_online, provider.s, FALSE)]

\* check_connectivity(provider): probe is what completion() does with the
\* test call. Every catalog entry lists a model, so test_model is never None.
check_connectivity(provider, probe) ==
    IF ~IsSupported(provider)
    THEN [ok |-> FALSE, online |-> provider_online]
    ELSE IF ~Truthy(EnvGet(SUPPORTED_PROVIDERS[provider.s].envVar))
    THEN [ok |-> FALSE, online |-> SetOnline(provider_online, provider.s, FALSE)]
    ELSE probed(provider, probe)

\* [m["id"] for m in list_models(provider)], provider being truthy
model_ids(provider) ==
    IF IsSupported(provider)
    THEN [i \in DOMAIN SUPPORTED_PROVIDERS[provider.s].models |->
            PyStr(SUPPORTED_PROVIDERS[provider.s].models[i].id)]
    ELSE <<>>

model_listed_any(provider, model) == TRUE

\* model in model_ids
model_listed(provider, model) ==
    \E i \in DOMAIN model_ids(provider) : model_ids(provider)[i] = model

\* emulator_start answers status before start_emulator is called
start_rejected(status, online) ==
    [status |-> status, online |-> online, called |-> FALSE,
     u |-> [ok |-> FALSE, file |-> config_file, cached |-> cached_config,
            mtime |-> config_mtime]]

\* emulator_start after start_emulator, whose update_config returned u.ok
start_answered(online, u) ==
    [status |-> IF u.ok THEN 200 ELSE 500, online |-> online, called |-> TRUE, u |-> u]

\* emulator_start after check_connectivity(provider) returned c.ok
start_checked(provider, model, api_key_env_var, c, io_ok) ==
    IF ~c.ok THEN start_rejected(503, c.online)
    ELSE IF ~model_listed(provider, model) THEN start_rejected(400, c.online)
    ELSE start_answered(c.online,
                        update_config(StartUpdates(provider, model, api_key_env_var), io_ok))

\* emulator_start(request): the status of the response, _provider_online and
\* what start_emulator's update_config did, if it was called
emulator_start(body, probe, io_ok) ==
    IF ~Truthy(Get(body, "provider")) THEN start_rejected(400, provider_online)
    ELSE IF ~Truthy(Get(body, "model")) THEN start_rejected(400, provider_online)
    ELSE start_checked(body["provider"], body["model"],
                       GetOr(body, "apiKeyEnvVar", PyStr("")),
                       check_connectivity(body["provider"], probe), io_ok)

----------------------------------------------------------------------------
(* Bounds and input domains *)

MaxTime == 1        \* the clock runs from 0 to MaxTime
MaxMsgs == 2        \* the longest messages list of a validated request
MaxPresets == 2     \* add_saved_config is not called on a longer list
MaxFrags == 2       \* an error message is made of at most MaxFrags fragments
MaxRequests == 1    \* chat completion requests served in one run
MaxTtl == 1         \* the longest ttl_ms is_models_cache_stale is called with

\* Dicts with at most one key
Field(k, v) == k :> v
OptField(k, vals) == {EmptyDict} \cup {Field(k, v) : v \in vals}

\* Sequences over S of length 0..n
SeqsUpTo(S, n) == UNION {[1..k -> S] : k \in 0..n}

UserMsg(content) == PyDict([role |-> PyStr("user"), content |-> content])

\* The pure functions' results before the function is applied
Unset == [cls |-> "unset"]
NotClassified == <<0, "unset">>

\* os.environ as the process may be started
Environs ==
    {[OPENAI_API_KEY |-> "sk-openai"],
     [OPENAI_API_KEY |-> "sk-openai", GROQ_API_KEY |-> "gsk-groq"]}

\* The configuration file as the process may find it at start
StoredConfig ==
    Merge(get_default_config,
          StartUpdates(PyStr("groq"), PyStr("llama-3.1-8b-instant"), PyStr("GROQ_API_KEY")))

InitConfigFiles ==
    {File("missing", EmptyDict, 0),
     File("json", StoredConfig, 0)}

\* The configuration file as a process that starts inactive may find it
StoppedConfigFiles ==
    {File("missing", EmptyDict, 0),
     File("json", Merge(StoredConfig, [emulatorActive |-> PyBool(FALSE)]), 0)}

\* Arguments of start_emulator
StartArgs ==
    {<<PyStr("openai"), PyStr("gpt-4"), PyStr("OPENAI_API_KEY")>>,
     <<PyStr("groq"), PyStr("llama-3.1-8b-instant"), PyStr("GROQ_API_KEY")>>}

\* Bodies of POST /config/save
SaveBodies ==
    {[model |-> PyStr("gpt-4o"), apiKeyEnvVar |-> PyStr("OPENAI_API_KEY"),
      unused |-> PyStr("x"), lastConfig |-> PyStr("x")],
     [provider |-> PyStr("mistral"), apiKeyEnvVar |-> PyStr("MY_KEY")]}

\* The two POST /config/save requests a client may have in flight at once
SaveRequests == {"first", "second"}

\* Request bodies of POST /v1/chat/completions
RequestModels == {PyStr(""), PyStr("   "), PyStr("my-model")}

RequestMessages ==
    {PyList(<<>>),
     PyList(<<PyDict([role |-> PyStr("user")])>>),
     PyList(<<UserMsg(PyInt(5))>>),
     PyList(<<UserMsg(PyStr("")), UserMsg(PyStr("Test message"))>>)}

RequestBodies ==
    {None, PyList(<<>>), PyStr("text")}
    \cup {PyDict(Merge(Merge(m, ms), p)) :
            m \in OptField("model", RequestModels),
            ms \in OptField("messages", RequestMessages),
            p \in OptField("prompt", {PyStr("Say hi")})}
    \cup {PyDict([model |-> PyStr("my-model"), prompt |-> PyStr("Say hi"),
                  temperature |-> PyInt(1), max_completion_tokens |-> PyInt(16)])}

Usage(p, c, t) == [prompt_tokens |-> p, completion_tokens |-> c, total_tokens |-> t]

\* What the backend may do with one completion() call
Backends ==
    {Returns(PyStr("Hi!"), None),
     Returns(PyStr("Hi!"), Usage(PyInt(3), PyInt(1), None)),
     Returns(None, None),
     Raises(Exc("AuthenticationError", "Invalid API key provided", PyStr("invalid_api_key"))),
     Raises(Exc("RuntimeError", "boom", Absent))}

RandomChars7 == {"k3x9q0z"}

\* Requests validate_request is applied to
ValidatedModels == {None, PyStr(""), PyStr("   "), PyStr("gpt-4"), PyInt(4)}

MessageEntries ==
    {UserMsg(PyStr("Hello")),
     UserMsg(PyStr("")),
     UserMsg(None),
     PyDict([role |-> PyStr("user")]),
     PyDict([content |-> PyStr("Hello")]),
     PyStr("Hello")}

ValidatedMessages ==
    {None, PyStr("Hello")} \cup {PyList(xs) : xs \in SeqsUpTo(MessageEntries, MaxMsgs)}

ValidatedBodies ==
    {None, PyList(<<>>), PyList(<<PyInt(1)>>), PyStr("text")}
    \cup {PyDict(Merge(Merge(m, ms), p)) :
            m \in OptField("model", ValidatedModels),
            ms \in OptField("messages", ValidatedMessages),
            p \in OptField("prompt", {None, PyStr(""), PyStr("Hello")})}

\* Exceptions classify_error is applied to: the message is made of at most
\* MaxFrags fragments
Fragments ==
    {"Invalid", "API key", "Connection refused", "Request timed out", "empty response",
     "Permission denied", "Rate limit exceeded", "bad request", "Model not found",
     "Something unexpected happened"}

RECURSIVE JoinFragments(_)
JoinFragments(fs) ==
    IF fs = <<>> THEN ""
    ELSE IF Len(fs) = 1 THEN fs[1]
    ELSE fs[1] \o ": " \o JoinFragments(Tail(fs))

ErrorMessages == {JoinFragments(fs) : fs \in SeqsUpTo(Fragments, MaxFrags)}

ErrorCodes ==
    {Absent, None, PyStr(""), PyStr("ECONNREFUSED"), PyStr("EAI_AGAIN"),
     PyStr("econnrefused"), PyStr("invalid_api_key"), PyInt(429)}

Errors == {Exc(cls, msg, code) : cls \in {"Exception", "APIError"},
                                 msg \in ErrorMessages, code \in ErrorCodes}

\* Arguments of the preset operations
RandomChars6 == {"a1b2c3", "x9y8z7"}

PresetNames == {PyStr("Fast"), PyStr("Smart")}

PresetIds == {PyStr(generate_id_at(t, rc)) : t \in 0..MaxTime, rc \in RandomChars6}

PresetUpdates ==
    {<<None, None, None, PyStr("")>>,
     <<PyStr("Renamed"), PyStr(""), PyStr("gpt-4o"), None>>}

InitPresetFiles ==
    {PresetFile("missing", <<>>),
     PresetFile("invalid", <<>>),
     PresetFile("json", <<>>)}

\* Bodies of POST /emulator/start
StartBodies ==
    {[provider |-> PyStr("groq"), model |-> PyStr("llama-3.1-8b-instant"),
      apiKeyEnvVar |-> PyStr("GROQ_API_KEY")],
     [provider |-> PyStr("openai"), model |-> PyStr("gpt-4o")],
     [provider |-> PyStr("openai"), model |-> PyStr("llama-3.1-8b-instant")],
     [provider |-> PyStr("ollama"), model |-> PyStr("gpt-4")],
     [provider |-> PyStr("openai"), model |-> None],
     [provider |-> PyStr(""), model |-> PyStr("gpt-4")],
     [model |-> PyStr("gpt-4")],
     [provider |-> PyStr("openai")]}

\* What completion() may do with the test call of check_connectivity
Probes ==
    {Returns(PyStr("Hi"), None),
     Raises(Exc("AuthenticationError", "Invalid API key provided", PyStr("invalid_api_key")))}

\* The presets file of a process that saved one preset before
StoredPresets ==
    PresetFile("json", <<[id |-> PyStr(generate_id_at(0, "a1b2c3")),
                          name |-> PyStr("Fast"),
                          provider |-> PyStr("openai"),
                          model |-> PyStr("gpt-4"),
                          apiKeyEnvVar |-> PyStr("OPENAI_API_KEY")]>>)

\* Arguments of save_models_cache
ModelLists ==
    {PyList(<<>>),
     PyList(<<PyDict([id |-> PyStr("gpt-4"), label |-> PyStr("GPT-4"),
                      provider |-> PyStr("openai")])>>)}

\* What another process may leave at MODELS_CACHE_PATH: a cache document of
\* any age, a document without a models list, text that is no JSON, or
\* nothing
ExternalModelsFiles ==
    {ModelsFile("json", [lastUpdated |-> u, models |-> PyList(<<PyDict([id |-> PyStr("o1")])>>)]) :
        u \in {None} \cup {PyInt(t) : t \in 0..MaxTime}}
    \cup {ModelsFile("json", [lastUpdated |-> PyInt(0)]),
          ModelsFile("invalid", EmptyDict),
          ModelsFile("missing", EmptyDict)}

\* Providers check_connectivity, chat and list_models are called with: two
\* of the catalog and one that is not in it
ClientProviders == {PyStr("openai"), PyStr("groq"), PyStr("ollama")}

\* Provider filters of list_models
ModelFilters == ClientProviders \cup {None, PyStr(""), PyStr("cerebras"), PyInt(7)}

\* Provider filters of GET /models: none, two of the catalog, one that is not
GetModelsFilters == {None, PyStr("openai"), PyStr("groq"), PyStr("ollama")}

\* Arguments of update_config
Partials ==
    {[model |-> PyStr("gpt-4o")],
     [provider |-> PyStr("groq"), extra |-> PyStr("x")]}

\* What another process may leave at CONFIG_PATH: a document, text that is
\* no JSON, or nothing
ExternalFiles ==
    {File("json", Merge(get_default_config, [model |-> PyStr("o1")]), 0),
     File("invalid", EmptyDict, 0),
     File("missing", EmptyDict, 0)}

----------------------------------------------------------------------------
(* Actions *)

Tick ==
    /\ now < MaxTime
    /\ now' = now + 1
    /\ UNCHANGED <<configVars, presetVars, modelsVars, clientVars, loggerVars, call, requests, pureVars, in_flight>>

StartEmulator ==
    \E a \in StartArgs, io_ok \in BOOLEAN :
        /\ start_emulator(a[1], a[2], a[3], io_ok)
        /\ call' = [op |-> "start_emulator", provider |-> a[1], model |-> a[2],
                    api_key_env_var |-> a[3],
                    result |-> update_config(StartUpdates(a[1], a[2], a[3]), io_ok).ok]
        /\ UNCHANGED <<presetVars, modelsVars, clientVars, loggerVars, now, requests, pureVars, in_flight>>

StopEmulator ==
    \E io_ok \in BOOLEAN :
        /\ stop_emulator(io_ok)
        /\ UNCHANGED <<presetVars, modelsVars, clientVars, loggerVars, now, requests, pureVars, in_flight>>

ConfigSave ==
    \E body \in SaveBodies, io_ok \in BOOLEAN :
        /\ config_save(body, io_ok)
        /\ UNCHANGED <<emulator_active, presetVars, modelsVars, clientVars, loggerVars, now, requests, pureVars, in_flight>>

\* config_save up to its await: request r is accepted and its coroutine is
\* suspended in request.json(), so that the event loop may run another
\* request's coroutine
ConfigSaveReceived ==
    \E r \in SaveRequests, body \in SaveBodies :
        /\ in_flight[r].pc = "idle"
        /\ in_flight' = [in_flight EXCEPT ![r] = [pc |-> "json", body |-> body]]
        /\ UNCHANGED <<configVars, presetVars, modelsVars, clientVars, loggerVars, now, call, requests,
                       pureVars>>

\* What request r leaves when its coroutine has run from request.json() to
\* the response: the configuration it read, the document it built, and the
\* requests that were suspended meanwhile
save_resumed(r, updates, io_ok) ==
    [pc |-> "done",
     updates |-> updates,
     read |-> get_config.value,
     config |-> Merge(get_config.value, updates),
     ok |-> update_config(updates, io_ok).ok,
     suspended |-> {s \in SaveRequests : in_flight[s].pc = "json" /\ s # r}]

\* config_save from request.json() to the response: the code has no await
\* between these, the event loop runs it in one piece
ConfigSaveResumed ==
    \E r \in SaveRequests, io_ok \in BOOLEAN :
        /\ in_flight[r].pc = "json"
        /\ config_save(in_flight[r].body, io_ok)
        /\ in_flight' = [in_flight EXCEPT
                            ![r] = save_resumed(r, config_save_updates(in_flight[r].body), io_ok)]
        /\ UNCHANGED <<emulator_active, presetVars, modelsVars, clientVars, loggerVars, now, requests,
                       pureVars>>

\* get_models(provider, force) returned r
models_got(provider, force, r) ==
    /\ models_cache_file' = r.file
    /\ cached_models' = r.cached
    /\ call' = [op |-> "get_models", provider |-> provider, force |-> force,
                models |-> r.models, source |-> r.source]

GetModels ==
    /\ \E provider \in GetModelsFilters, force \in BOOLEAN, io_ok \in BOOLEAN :
        models_got(provider, force, get_models(provider, force, io_ok))
    /\ UNCHANGED <<configVars, presetVars, clientVars, loggerVars, now, requests, pureVars, in_flight>>

\* The state emulator_start leaves: r is its result
emulator_started(body, probe, io_ok, r) ==
    /\ IF r.called
       THEN started(body["provider"], body["model"],
                    GetOr(body, "apiKeyEnvVar", PyStr("")), r.u)
       ELSE UNCHANGED configVars
    /\ provider_online' = r.online
    /\ call' = [op |-> "emulator_start", body |-> body, probe |-> probe,
                status |-> r.status, called |-> r.called,
                probed |-> check_connectivity(Get(body, "provider"), probe).ok,
                active_before |-> emulator_active,
                file_before |-> config_file]

EmulatorStart ==
    \E body \in StartBodies, probe \in Probes, io_ok \in BOOLEAN :
        /\ emulator_started(body, probe, io_ok, emulator_start(body, probe, io_ok))
        /\ UNCHANGED <<presetVars, modelsVars, environ, loggerVars, now, requests, pureVars, in_flight>>

\* get_config() returned g
config_got(g) ==
    /\ cached_config' = g.cached
    /\ config_mtime' = g.mtime
    /\ call' = [op |-> "get_config",
                value |-> g.value,
                loaded |-> get_config_loads(cached_config, config_mtime, config_file),
                previous |-> IF call.op = "get_config" THEN PyDict(call.value) ELSE None]

GetConfig ==
    /\ config_got(get_config)
    /\ UNCHANGED <<config_file, emulator_active, presetVars, modelsVars, clientVars, loggerVars, now,
                   requests, pureVars, in_flight>>

\* update_config(updates) returned u.ok
config_updated(updates, io_ok, u) ==
    /\ set_config(u)
    /\ call' = [op |-> "update_config",
                updates |-> updates,
                io_ok |-> io_ok,
                result |-> u.ok,
                previous |-> IF call.op = "get_config" THEN PyDict(call.value) ELSE None,
                cached_before |-> cached_config,
                file_before |-> config_file]

UpdateConfig ==
    \E updates \in Partials, io_ok \in BOOLEAN :
        /\ config_updated(updates, io_ok, update_config(updates, io_ok))
        /\ UNCHANGED <<emulator_active, presetVars, modelsVars, clientVars, loggerVars, now, requests, pureVars, in_flight>>

\* Another process rewrites, corrupts or removes the configuration file; the
\* file's modification time moves on
ExternalWrite ==
    /\ now > config_file.mtime
    /\ \E f \in ExternalFiles : config_file' = [f EXCEPT !.mtime = now]
    /\ call' = [op |-> "external_write"]
    /\ UNCHANGED <<cached_config, config_mtime, emulator_active, presetVars, modelsVars, clientVars,
                   loggerVars, now, requests, pureVars, in_flight>>

\* The state one invocation of handle_chat_completion leaves
handled(request_body, backend, o) ==
    /\ cached_config' = o.cached
    /\ config_mtime' = o.mtime
    /\ provider_online' = o.online
    /\ last_successful_completion' = o.last_successful_completion
    /\ last_error' = o.last_error
    /\ call' = [op |-> "handle_chat_completion",
                request_body |-> request_body,
                backend |-> backend,
                active |-> emulator_active,
                raised |-> o.raised,
                response |-> o.response,
                completions |-> o.completions,
                events |-> o.events]

HandleChatCompletion ==
    /\ requests < MaxRequests
    /\ requests' = requests + 1
    /\ \E request_body \in RequestBodies, backend \in Backends, random_chars \in RandomChars7 :
        handled(request_body, backend, handle_chat_completion(request_body, backend, random_chars))
    /\ UNCHANGED <<config_file, emulator_active, presetVars, modelsVars, environ, now, pureVars, in_flight>>

\* The preset store one preset operation leaves
preset_op_done(r) ==
    /\ saved_configs_file' = r.file
    /\ cached_saved_configs' = r.cached

AddPreset ==
    /\ Len(get_saved_configs.value) < MaxPresets
    /\ \E name \in PresetNames, random_chars \in RandomChars6, io_ok \in BOOLEAN :
        /\ preset_op_done(add_saved_config(name, PyStr("openai"), PyStr("gpt-4"),
                                           PyStr("OPENAI_API_KEY"), random_chars, io_ok))
        /\ call' = [op |-> "add_saved_config",
                    before |-> get_saved_configs.value,
                    file_before |-> saved_configs_file,
                    result |-> add_saved_config(name, PyStr("openai"), PyStr("gpt-4"),
                                                PyStr("OPENAI_API_KEY"), random_chars, io_ok).result]
    /\ UNCHANGED <<configVars, modelsVars, clientVars, loggerVars, now, requests, pureVars, in_flight>>

UpdatePreset ==
    /\ \E config_id \in PresetIds, u \in PresetUpdates, io_ok \in BOOLEAN :
        /\ preset_op_done(update_saved_config(config_id, u[1], u[2], u[3], u[4], io_ok))
        /\ call' = [op |-> "update_saved_config", config_id |-> config_id,
                    new_name |-> u[1], provider |-> u[2], model |-> u[3],
                    api_key_env_var |-> u[4],
                    before |-> get_saved_configs.value,
                    file_before |-> saved_configs_file,
                    result |-> update_saved_config(config_id, u[1], u[2], u[3], u[4], io_ok).result]
    /\ UNCHANGED <<configVars, modelsVars, clientVars, loggerVars, now, requests, pureVars, in_flight>>

DeletePreset ==
    /\ \E config_id \in PresetIds, io_ok \in BOOLEAN :
        /\ preset_op_done(delete_saved_config(config_id, io_ok))
        /\ call' = [op |-> "delete_saved_config", config_id |-> config_id,
                    before |-> get_saved_configs.value,
                    file_before |-> saved_configs_file,
                    result |-> delete_saved_config(config_id, io_ok).result]
    /\ UNCHANGED <<configVars, modelsVars, clientVars, loggerVars, now, requests, pureVars, in_flight>>

GetModelsCache ==
    /\ cached_models' = get_models_cache.cached
    /\ call' = [op |-> "get_models_cache", value |-> get_models_cache.value,
                cached_before |-> cached_models]
    /\ UNCHANGED <<configVars, presetVars, models_cache_file, clientVars, loggerVars,
                   now, requests, pureVars, in_flight>>

\* The models cache save_models_cache leaves: r is its result
models_saved(models, r) ==
    /\ models_cache_file' = r.file
    /\ cached_models' = r.cached
    /\ call' = [op |-> "save_models_cache", models |-> models, result |-> r.result]

SaveModelsCache ==
    /\ \E models \in ModelLists, io_ok \in BOOLEAN :
        models_saved(models, save_models_cache(models, io_ok))
    /\ UNCHANGED <<configVars, presetVars, clientVars, loggerVars, now, requests, pureVars, in_flight>>

IsModelsCacheStale ==
    /\ \E ttl_ms \in 0..MaxTtl :
        /\ cached_models' = is_models_cache_stale(ttl_ms).cached
        /\ call' = [op |-> "is_models_cache_stale", ttl_ms |-> ttl_ms, time |-> now,
                    lastUpdated |-> Get(get_models_cache.value, "lastUpdated"),
                    result |-> is_models_cache_stale(ttl_ms).result]
    /\ UNCHANGED <<configVars, presetVars, models_cache_file, clientVars, loggerVars,
                   now, requests, pureVars, in_flight>>

\* Another process replaces or removes the models cache file
ExternalModelsWrite ==
    /\ \E f \in ExternalModelsFiles : models_cache_file' = f
    /\ call' = [op |-> "external_write"]
    /\ UNCHANGED <<configVars, presetVars, cached_models, clientVars, loggerVars,
                   now, requests, pureVars, in_flight>>

\* check_connectivity(provider) returned c.ok
connectivity_checked(provider, probe, c) ==
    /\ provider_online' = c.online
    /\ call' = [op |-> "check_connectivity", provider |-> provider, probe |-> probe,
                online_before |-> is_provider_online(provider), result |-> c.ok]

CheckConnectivity ==
    /\ \E provider \in ClientProviders, probe \in Probes :
        connectivity_checked(provider, probe, check_connectivity(provider, probe))
    /\ UNCHANGED <<configVars, presetVars, modelsVars, environ, loggerVars, now, requests,
                   pureVars, in_flight>>

\* chat(messages, options) returned or raised (c), options naming provider
chat_done(provider, backend, c) ==
    /\ provider_online' = c.online
    /\ call' = [op |-> "chat", provider |-> provider, backend |-> backend,
                online_before |-> is_provider_online(provider),
                exc |-> c.exc, result |-> c.result, completions |-> c.completions]

\* chat called as handle_chat_completion calls it: the options name the
\* provider and the model and carry no API key
Chat ==
    /\ \E provider \in ClientProviders, backend \in Backends :
        chat_done(provider, backend,
                  chat(<<UserMsg(PyStr("Hi"))>>,
                       [provider |-> provider, model |-> PyStr("gpt-4"), api_key |-> None],
                       backend, provider_online))
    /\ UNCHANGED <<configVars, presetVars, modelsVars, environ, loggerVars, now, requests,
                   pureVars, in_flight>>

ListModels ==
    /\ \E provider \in ModelFilters :
        call' = [op |-> "list_models", provider |-> provider, value |-> list_models(provider)]
    /\ UNCHANGED <<configVars, presetVars, modelsVars, clientVars, loggerVars, now, requests,
                   pureVars, in_flight>>

\* classify_error(error)
ClassifyError ==
    /\ classified = NotClassified
    /\ classified' = classify_error(error)
    /\ UNCHANGED <<configVars, presetVars, modelsVars, clientVars, loggerVars, now, call, requests,
                   error, request, validation, in_flight>>

\* validate_request(body)
ValidateRequest ==
    /\ validation = Unset
    /\ validation' = validate_request(request)
    /\ UNCHANGED <<configVars, presetVars, modelsVars, clientVars, loggerVars, now, call, requests,
                   error, classified, request, in_flight>>

----------------------------------------------------------------------------
(* Specifications *)

\* The pure functions' variables when no pure function is under test
PureIdle ==
    /\ error = Exc("Exception", "", Absent)
    /\ classified = NotClassified
    /\ request = None
    /\ validation = Unset

PresetsIdle ==
    /\ saved_configs_file = PresetFile("missing", <<>>)
    /\ cached_saved_configs = None

\* The module-level state of litellm_client.py and logger.py at import
ModulesLoaded ==
    /\ provider_online = [k \in {} |-> FALSE]
    /\ models_cache_file = ModelsFile("missing", EmptyDict)
    /\ cached_models = None
    /\ last_successful_completion = None
    /\ last_error = None
    /\ now = 0
    /\ call = [op |-> "init"]
    /\ requests = 0
    /\ in_flight = [r \in SaveRequests |-> [pc |-> "idle"]]

\* The server process: the emulator, the configuration and chat requests
Init ==
    /\ \E f \in InitConfigFiles : init_emulator_state(f)
    /\ environ \in Environs
    /\ PresetsIdle
    /\ ModulesLoaded
    /\ PureIdle

Next ==
    \/ StartEmulator
    \/ StopEmulator
    \/ ConfigSave
    \/ HandleChatCompletion

Spec == Init /\ [][Next]_vars

\* The configuration document, its cache and other processes writing the file
InitConfig ==
    /\ \E f \in InitConfigFiles : init_emulator_state(f)
    /\ environ = [OPENAI_API_KEY |-> "sk-openai"]
    /\ PresetsIdle
    /\ ModulesLoaded
    /\ PureIdle

NextConfig ==
    \/ GetConfig
    \/ UpdateConfig
    \/ ExternalWrite
    \/ Tick

SpecConfig == InitConfig /\ [][NextConfig]_vars

\* The emulator's routes, the configuration and the preset store
InitEmulator ==
    /\ \E f \in InitConfigFiles : init_emulator_state(f)
    /\ environ \in Environs
    /\ saved_configs_file = StoredPresets
    /\ cached_saved_configs = None
    /\ ModulesLoaded
    /\ PureIdle

NextEmulator ==
    \/ EmulatorStart
    \/ StopEmulator
    \/ ConfigSave
    \/ UpdatePreset
    \/ DeletePreset

SpecEmulator == InitEmulator /\ [][NextEmulator]_vars

\* The models cache, its file and other processes writing the file
InitModels ==
    /\ init_emulator_state(File("missing", EmptyDict, 0))
    /\ environ = [OPENAI_API_KEY |-> "sk-openai"]
    /\ PresetsIdle
    /\ ModulesLoaded
    /\ PureIdle

NextModels ==
    \/ GetModelsCache
    \/ SaveModelsCache
    \/ IsModelsCacheStale
    \/ ExternalModelsWrite
    \/ Tick

SpecModels == InitModels /\ [][NextModels]_vars

\* litellm_client.py under its callers: the connectivity map and the catalog
InitClient ==
    /\ init_emulator_state(File("missing", EmptyDict, 0))
    /\ environ \in Environs
    /\ PresetsIdle
    /\ ModulesLoaded
    /\ PureIdle

NextClient ==
    \/ CheckConnectivity
    \/ Chat
    \/ ListModels

SpecClient == InitClient /\ [][NextClient]_vars

\* The active flag under every operation of the process
InitActive ==
    /\ \E f \in InitConfigFiles : init_emulator_state(f)
    /\ environ = [OPENAI_API_KEY |-> "sk-openai"]
    /\ saved_configs_file = StoredPresets
    /\ cached_saved_configs = None
    /\ ModulesLoaded
    /\ PureIdle

NextActive ==
    \/ StartEmulator
    \/ StopEmulator
    \/ UpdateConfig
    \/ GetConfig
    \/ ExternalWrite
    \/ Tick
    \/ DeletePreset
    \/ GetModelsCache
    \/ SaveModelsCache

SpecActive == InitActive /\ [][NextActive]_vars

\* The preset store
InitPresets ==
    /\ init_emulator_state(File("missing", EmptyDict, 0))
    /\ environ = [OPENAI_API_KEY |-> "sk-openai"]
    /\ saved_configs_file \in InitPresetFiles
    /\ cached_saved_configs = None
    /\ ModulesLoaded
    /\ PureIdle

NextPresets ==
    \/ AddPreset
    \/ UpdatePreset
    \/ DeletePreset
    \/ Tick

SpecPresets == InitPresets /\ [][NextPresets]_vars

\* classify_error applied to every exception of Errors
InitClassify ==
    /\ init_emulator_state(File("missing", EmptyDict, 0))
    /\ environ = [OPENAI_API_KEY |-> "sk-openai"]
    /\ PresetsIdle
    /\ ModulesLoaded
    /\ error \in Errors
    /\ classified = NotClassified
    /\ request = None
    /\ validation = Unset

NextClassify == ClassifyError

SpecClassify == InitClassify /\ [][NextClassify]_vars

\* validate_request applied to every body of ValidatedBodies
InitValidate ==
    /\ init_emulator_state(File("missing", EmptyDict, 0))
    /\ environ = [OPENAI_API_KEY |-> "sk-openai"]
    /\ PresetsIdle
    /\ ModulesLoaded
    /\ error = Exc("Exception", "", Absent)
    /\ classified = NotClassified
    /\ request \in ValidatedBodies
    /\ validation = Unset

NextValidate == ValidateRequest

SpecValidate == InitValidate /\ [][NextValidate]_vars

\* The emulator's routes in a process that starts inactive: no configuration
\* file, or the file a stopped emulator left
InitStopped ==
    /\ \E f \in StoppedConfigFiles : init_emulator_state(f)
    /\ environ \in Environs
    /\ PresetsIdle
    /\ ModulesLoaded
    /\ PureIdle

NextStopped ==
    \/ EmulatorStart
    \/ StopEmulator
    \/ ConfigSave

SpecStopped == InitStopped /\ [][NextStopped]_vars

\* GET /models over the models cache
InitGetModels ==
    /\ init_emulator_state(File("missing", EmptyDict, 0))
    /\ environ = [OPENAI_API_KEY |-> "sk-openai"]
    /\ PresetsIdle
    /\ ModulesLoaded
    /\ PureIdle

NextGetModels ==
    \/ GetModels
    \/ Tick

SpecGetModels == InitGetModels /\ [][NextGetModels]_vars

\* Two POST /config/save requests in flight on the server's event loop
InitSaves ==
    /\ \E f \in InitConfigFiles : init_emulator_state(f)
    /\ environ = [OPENAI_API_KEY |-> "sk-openai"]
    /\ PresetsIdle
    /\ ModulesLoaded
    /\ PureIdle

NextSaves ==
    \/ ConfigSaveReceived
    \/ ConfigSaveResumed
    \/ Tick

SpecSaves == InitSaves /\ [][NextSaves]_vars

----------------------------------------------------------------------------
(* Properties *)

\* C1: while the emulator is Inactive, handle_chat_completion called with a
\* request that passes validation returns status 503 with error type
\* service_unavailable, and no completion() call is made during that call.
C1_InactiveRejectsValidRequest ==
    (/\ call.op = "handle_chat_completion"
     /\ ~call.active
     /\ validate_request(call.request_body) = NoExc)
    => /\ call.raised = NoExc
       /\ call.response.statusCode = 503
       /\ call.response.body.error.type = "service_unavailable"
       /\ call.completions = <<>>

C1_Witness ==
    /\ call.op = "handle_chat_completion"
    /\ ~call.active
    /\ validate_request(call.request_body) = NoExc
    /\ call.backend = Returns(PyStr("Hi!"), None)
    /\ call.response.statusCode = 503

\* C2 as stated: for every request whose model is missing, empty or
\* whitespace-only, handle_chat_completion yields 400 invalid_request_error
\* and makes no completion() call, whatever the rest of the request and
\* whatever the emulator state.
C2_ModelRequiredInEveryState ==
    (/\ call.op = "handle_chat_completion"
     /\ call.request_body.t = "dict"
     /\ LET model == Get(call.request_body.d, "model")
        IN  model = None \/ (model.t = "str" /\ StrStrip(model.s) = ""))
    => /\ call.raised = NoExc
       /\ call.response.statusCode = 400
       /\ call.response.body.error.type = "invalid_request_error"
       /\ call.completions = <<>>

\* C2 as amended: for every request object whose model is missing, empty or
\* whitespace-only, handle_chat_completion makes no completion() call in any
\* emulator state; it yields 400 invalid_request_error while the emulator is
\* Active and 503 service_unavailable while it is Inactive.
C2_ModelRequiredWhileActive ==
    (/\ call.op = "handle_chat_completion"
     /\ call.request_body.t = "dict"
     /\ LET model == Get(call.request_body.d, "model")
        IN  model = None \/ (model.t = "str" /\ StrStrip(model.s) = ""))
    => /\ call.raised = NoExc
       /\ call.completions = <<>>
       /\ call.active => /\ call.response.statusCode = 400
                         /\ call.response.body.error.type = "invalid_request_error"
       /\ ~call.active => /\ call.response.statusCode = 503
                          /\ call.response.body.error.type = "service_unavailable"

C2_Witness ==
    /\ call.op = "handle_chat_completion"
    /\ call.active
    /\ call.request_body = PyDict([model |-> PyStr("   "), prompt |-> PyStr("Say hi")])
    /\ call.response.statusCode = 400

\* C3: for every request that has a valid model but neither messages nor
\* prompt, validate_request raises a ValidationError with status 400 and type
\* invalid_request_error whose message, lowercased, contains
\* "messages or prompt".
C3_MessagesOrPromptRequired ==
    (/\ validation # Unset
     /\ request.t = "dict"
     /\ Get(request.d, "model").t = "str"
     /\ StrStrip(Get(request.d, "model").s) # ""
     /\ Get(request.d, "messages") = None
     /\ Get(request.d, "prompt") = None)
    => /\ validation.cls = "ValidationError"
       /\ validation.status_code = 400
       /\ validation.type = "invalid_request_error"
       /\ StrContains(StrLower(validation.msg), "messages or prompt")

C3_Witness ==
    /\ request = PyDict([model |-> PyStr("gpt-4")])
    /\ validation # Unset
    /\ validation.cls = "ValidationError"

\* C4: for every request with a valid model whose messages list is present
\* but empty, or holds an entry that lacks role or whose content is absent or
\* null, validate_request raises a ValidationError with status 400 and type
\* invalid_request_error, also when a prompt is supplied alongside; a request
\* whose messages all have a role and a string content, the empty string
\* included, is accepted.
C4_MessagesWellFormed ==
    (/\ validation # Unset
     /\ request.t = "dict"
     /\ Get(request.d, "model").t = "str"
     /\ StrStrip(Get(request.d, "model").s) # ""
     /\ Get(request.d, "messages").t = "list")
    => LET messages == request.d["messages"].xs
           lacking(m) == m.t = "dict" /\ ("role" \notin DOMAIN m.d \/ Get(m.d, "content") = None)
           complete(m) == /\ m.t = "dict"
                          /\ "role" \in DOMAIN m.d
                          /\ Get(m.d, "content").t = "str"
       IN  /\ (messages = <<>> \/ \E i \in 1..Len(messages) : lacking(messages[i]))
              => /\ validation.cls = "ValidationError"
                 /\ validation.status_code = 400
                 /\ validation.type = "invalid_request_error"
           /\ (messages # <<>> /\ \A i \in 1..Len(messages) : complete(messages[i]))
              => validation = NoExc

C4_Witness ==
    /\ validation = NoExc
    /\ request = PyDict([model |-> PyStr("gpt-4"),
                         messages |-> PyList(<<UserMsg(PyStr("")), UserMsg(PyStr("Hello"))>>)])

\* C5: every completion() call handle_chat_completion makes is for the
\* provider and model of the persisted configuration: its model string is
\* built from the configured provider and model, never from the request's
\* model, and its API key is the configured provider's.
C5_BackendCallUsesConfiguration ==
    (call.op = "handle_chat_completion" /\ call.completions # <<>>)
    => LET config == IF config_file.kind = "json" THEN config_file.doc ELSE get_default_config
       IN  \A i \in 1..Len(call.completions) :
              /\ call.completions[i]["model"]
                    = get_provider_model_string(config["provider"], config["model"])
              /\ call.completions[i]["api_key"]
                    = EnvGet(SUPPORTED_PROVIDERS[config["provider"].s].envVar)

C5_Witness ==
    /\ call.op = "handle_chat_completion"
    /\ Len(call.completions) = 1
    /\ call.completions[1]["model"] = PyStr("groq/gpt-4o")
    /\ Get(call.request_body.d, "model") = PyStr("my-model")

\* C6: when the emulator is Active, the request passes validation and the
\* backend returns non-empty text, handle_chat_completion returns status 200
\* with a body whose model is the requested model string, exactly one choice
\* with role "assistant" whose content is the backend text, finish_reason
\* "stop", and an id starting with "chatcmpl-".
C6_SuccessResponse ==
    (/\ call.op = "handle_chat_completion"
     /\ call.active
     /\ validate_request(call.request_body) = NoExc
     /\ Len(call.completions) = 1
     /\ call.backend.kind = "response"
     /\ Truthy(call.backend.content))
    => /\ call.raised = NoExc
       /\ call.response.statusCode = 200
       /\ call.response.body.model = call.request_body.d["model"]
       /\ Len(call.response.body.choices) = 1
       /\ call.response.body.choices[1].message.role = "assistant"
       /\ call.response.body.choices[1].message.content = call.backend.content
       /\ call.response.body.choices[1].finish_reason = "stop"
       /\ SubSeq(call.response.body.id, 1, 9) = "chatcmpl-"

\* C7: classify_error is the ordered first-match rule list: a network code or
\* network term gives (503, service_unavailable); else an auth term gives
\* (401, authentication_error); else a permission term 403; else rate, limit
\* or quota 429; else invalid or bad request 400; else "not found" 404; else
\* (500, internal_server_error).  In particular a message holding both
\* "invalid" and "api key" that reaches the auth rule gives 401, and the
\* result depends on the exception's message and code only.
C7_ClassifyIsFirstMatch ==
    classified # NotClassified =>
        LET msg == StrLower(error.msg)
            has(term) == StrContains(msg, term)
            network == \/ /\ error.code.t = "str"
                          /\ error.code.s \in {"ECONNREFUSED", "ENOTFOUND", "ETIMEDOUT",
                                               "ECONNRESET", "ENETUNREACH", "EAI_AGAIN"}
                       \/ \E term \in {"network", "timeout", "connect", "offline",
                                       "unavailable", "empty response"} : has(term)
            auth == \E term \in {"auth", "token", "unauthorized", "api key"} : has(term)
            permission == \E term \in {"permission", "forbidden"} : has(term)
            rate == \E term \in {"rate", "limit", "quota"} : has(term)
            invalid == \E term \in {"invalid", "bad request"} : has(term)
            expected ==
                CASE network    -> <<503, "service_unavailable">>
                  [] ~network /\ auth -> <<401, "authentication_error">>
                  [] ~network /\ ~auth /\ permission -> <<403, "permission_error">>
                  [] ~network /\ ~auth /\ ~permission /\ rate -> <<429, "rate_limit_error">>
                  [] ~network /\ ~auth /\ ~permission /\ ~rate /\ invalid
                        -> <<400, "invalid_request_error">>
                  [] ~network /\ ~auth /\ ~permission /\ ~rate /\ ~invalid /\ has("not found")
                        -> <<404, "not_found_error">>
                  [] OTHER -> <<500, "internal_server_error">>
        IN  /\ classified = expected
            /\ (~network /\ has("invalid") /\ has("api key"))
                  => classified = <<401, "authentication_error">>
            /\ \A cls \in {"Exception", "ValueError", "APIError"} :
                  classify_error([error EXCEPT !.cls = cls]) = classified

C7_Witness ==
    /\ error = Exc("Exception", "Invalid: API key", Absent)
    /\ classified = <<401, "authentication_error">>

\* C8: handle_chat_completion never lets a failure escape: for every input,
\* a null or non-object body included, and every backend outcome it returns
\* a {statusCode, body} value, and on failure the body has the shape
\* {error: {message, type, code}}.
C8_NoFailureEscapes ==
    call.op = "handle_chat_completion"
    => /\ call.raised = NoExc
       /\ DOMAIN call.response = {"statusCode", "body"}
       /\ call.response.statusCode # 200
             => /\ DOMAIN call.response.body = {"error"}
                /\ DOMAIN call.response.body.error = {"message", "type", "code"}

\* C9: with the emulator Active, handle_chat_completion called with a null
\* body returns 400 with error type invalid_request_error.
C9_NullBodyRejected ==
    (/\ call.op = "handle_chat_completion"
     /\ call.active
     /\ call.request_body = None)
    => /\ call.raised = NoExc
       /\ call.response.statusCode = 400
       /\ call.response.body.error.type = "invalid_request_error"

\* C10: after a successful add_saved_config returning preset P,
\* get_saved_config_by_id(P.id) returns a record equal to P; after a
\* successful delete_saved_config(id), get_saved_config_by_id(id) returns
\* None.
C10_PresetRoundTrip ==
    /\ (call.op = "add_saved_config" /\ call.result # None)
          => get_saved_config_by_id(call.result.d["id"]) = call.result
    /\ (call.op = "delete_saved_config" /\ call.result)
          => get_saved_config_by_id(call.config_id) = None

\* C11: a successful update_saved_config overwrites name, provider and model
\* only when the value supplied is non-empty (None or "" leaves the stored
\* value), and overwrites apiKeyEnvVar whenever the argument is not None, the
\* empty string included; update_saved_config(id, None, None, None, "")
\* leaves name, provider and model and sets apiKeyEnvVar to "".  The preset's
\* id and every other preset are unchanged.
C11_UpdatePresetFields ==
    (call.op = "update_saved_config" /\ call.result)
    => LET before == call.before
           after == get_saved_configs.value
           i == CHOOSE k \in 1..Len(before) :
                   /\ before[k]["id"] = call.config_id
                   /\ \A j \in 1..(k - 1) : before[j]["id"] # call.config_id
           kept(supplied, old) == IF supplied = None \/ supplied = PyStr("") THEN old ELSE supplied
       IN  /\ Len(after) = Len(before)
           /\ \A j \in 1..Len(before) : j # i => after[j] = before[j]
           /\ DOMAIN after[i] = DOMAIN before[i]
           /\ after[i]["id"] = before[i]["id"]
           /\ after[i]["name"] = kept(call.new_name, before[i]["name"])
           /\ after[i]["provider"] = kept(call.provider, before[i]["provider"])
           /\ after[i]["model"] = kept(call.model, before[i]["model"])
           /\ after[i]["apiKeyEnvVar"] =
                 IF call.api_key_env_var = None THEN before[i]["apiKeyEnvVar"]
                 ELSE call.api_key_env_var

C11_Witness ==
    /\ call.op = "update_saved_config"
    /\ call.result
    /\ call.new_name = None /\ call.provider = None /\ call.model = None
    /\ call.api_key_env_var = PyStr("")
    /\ Len(call.before) = 2
    /\ get_saved_configs.value[1]["apiKeyEnvVar"] = PyStr("")
    /\ get_saved_configs.value[1]["name"] = PyStr("Fast")

\* C12: preset ids are globally unique: after any sequence of
\* add_saved_config, update_saved_config and delete_saved_config calls, no
\* two presets in the store have the same id, two add_saved_config calls made
\* within the same millisecond included.
C12_PresetIdsUnique ==
    \A i, j \in 1..Len(get_saved_configs.value) :
        i # j => get_saved_configs.value[i]["id"] # get_saved_configs.value[j]["id"]

\* C13: update_saved_config and delete_saved_config called with an id that no
\* stored preset has return False and leave both the in-memory preset list
\* and the persisted presets document unchanged.
C13_UnknownPresetIdFails ==
    (/\ call.op \in {"update_saved_config", "delete_saved_config"}
     /\ \A i \in 1..Len(call.before) : call.before[i]["id"] # call.config_id)
    => /\ call.result = FALSE
       /\ get_saved_configs.value = call.before
       /\ saved_configs_file = call.file_before

C13_Witness ==
    /\ call.op = "delete_saved_config"
    /\ Len(call.before) = 1
    /\ call.before[1]["id"] # call.config_id
    /\ call.result = FALSE

\* C14: two consecutive get_config calls with no update_config and no change
\* of the configuration file between them return the identical value, and
\* the second does not read the file again; in every state of the cache and
\* the file (present, missing or unparseable; cache empty or populated).
C14_GetConfigTwice ==
    (call.op = "get_config" /\ call.previous # None)
    => /\ call.value = call.previous.d
       /\ ~call.loaded

\* C15: after a successful update_config(partial), the next get_config
\* returns exactly the previous get_config result with partial's top-level
\* keys overwritten: keys not in partial, unknown extra keys included, keep
\* their values, and the persisted document equals the cached value.
C15_UpdateConfigMerges ==
    (call.op = "update_config" /\ call.result)
    => /\ config_file.kind = "json"
       /\ cached_config = PyDict(config_file.doc)
       /\ call.previous # None
             => /\ DOMAIN get_config.value = DOMAIN call.previous.d \cup DOMAIN call.updates
                /\ \A k \in DOMAIN get_config.value :
                      get_config.value[k] = IF k \in DOMAIN call.updates
                                            THEN call.updates[k]
                                            ELSE call.previous.d[k]

C17_DefaultsWhenUnreadable ==
    (call.op = "get_config" /\ config_file.kind \in {"missing", "invalid"})
    => call.value = get_default_config

\* get_last_config(): get_config().get("lastConfig")
get_last_config == Get(get_config.value, "lastConfig")

C20_StartOnlyWhenValidated ==
    call.op = "emulator_start"
    => /\ (emulator_active /\ ~call.active_before) => call.status = 200
       /\ IF /\ Truthy(Get(call.body, "provider"))
             /\ Truthy(Get(call.body, "model"))
             /\ call.probed
             /\ \E i \in DOMAIN model_ids(call.body["provider"]) :
                    model_ids(call.body["provider"])[i] = call.body["model"]
          THEN call.status \in {200, 500}
          ELSE /\ call.status \in {400, 503}
               /\ emulator_active = call.active_before
               /\ config_file = call.file_before

C20_Witness ==
    /\ call.op = "emulator_start"
    /\ call.body = [provider |-> PyStr("openai"), model |-> PyStr("llama-3.1-8b-instant")]
    /\ call.probed
    /\ call.status = 400
    /\ ~emulator_active

\* C19: _emulator_active starts as the emulatorActive value of the
\* configuration file; afterwards a step changes it only when it is a
\* start_emulator call that returned True, which sets it, or a stop_emulator
\* call that returned True, which clears it. A start or stop that returned
\* False, update_config, get_config, the preset and models cache operations
\* and chat requests leave it as it was.
C19_ActiveFlagOnlyByStartStop ==
    /\ emulator_active = (/\ config_file.kind = "json"
                          /\ Get(config_file.doc, "emulatorActive") = PyBool(TRUE))
    /\ [][/\ emulator_active' # emulator_active
              => \/ call'.op = "start_emulator" /\ call'.result /\ emulator_active'
                 \/ call'.op = "stop_emulator" /\ call'.result /\ ~emulator_active'
          /\ (now' = now /\ call'.op = "start_emulator" /\ call'.result) => emulator_active'
          /\ (now' = now /\ call'.op = "stop_emulator" /\ call'.result) => ~emulator_active'
         ]_vars

C19_Witness ==
    /\ call.op = "get_config"
    /\ call.loaded
    /\ Get(call.value, "emulatorActive") = PyBool(FALSE)
    /\ emulator_active

\* C21: is_models_cache_stale(ttl) returns True exactly when the cache has no
\* lastUpdated or the time of the call minus lastUpdated is strictly greater
\* than ttl.
C21_StaleExactly ==
    call.op = "is_models_cache_stale"
    => (call.result <=> \/ call.lastUpdated = None
                        \/ call.time - call.lastUpdated.n > call.ttl_ms)

C21_Witness ==
    /\ call.op = "is_models_cache_stale"
    /\ call.lastUpdated # None
    /\ call.time - call.lastUpdated.n = call.ttl_ms
    /\ ~call.result

\* C22: get_models_cache returns the content of the models cache file as it
\* is now, also when the file was changed by another process after it was
\* first loaded; when the file is missing, unparseable or holds no models
\* list it returns an empty list with no timestamp.
C22_ModelsCacheReloads ==
    call.op = "get_models_cache"
    => call.value = IF /\ models_cache_file.kind = "json"
                       /\ Get(models_cache_file.doc, "models").t = "list"
                    THEN models_cache_file.doc
                    ELSE [models |-> PyList(<<>>), lastUpdated |-> None]

\* The sum over the messages of ceil(len(content) / 4)
RECURSIVE PerMessageTokens(_)
PerMessageTokens(msgs) ==
    IF msgs = <<>> THEN 0
    ELSE estimate_tokens(Get(msgs[1].d, "content")) + PerMessageTokens(Tail(msgs))

\* C23: when the backend reports no usage, the usage of the 200 response has
\* prompt_tokens equal to the sum over the input messages of
\* ceil(len(content) / 4), completion_tokens equal to ceil(len(text) / 4) and
\* total_tokens equal to their sum; estimate_tokens of an empty or absent
\* text is 0 and of a 12-character text is 3.
C23_UsageEstimatedPerMessage ==
    /\ estimate_tokens(PyStr("")) = 0
    /\ estimate_tokens(None) = 0
    /\ estimate_tokens(PyStr("Test message")) = 3
    /\ (/\ call.op = "handle_chat_completion"
        /\ call.raised = NoExc
        /\ call.response.statusCode = 200
        /\ call.backend.usage = None)
       => /\ call.response.body.usage.prompt_tokens
                = PyInt(PerMessageTokens(input_messages_of(call.request_body.d)))
          /\ call.response.body.usage.completion_tokens
                = PyInt(estimate_tokens(call.response.body.choices[1].message.content))
          /\ call.response.body.usage.total_tokens
                = PyInt(call.response.body.usage.prompt_tokens.n
                        + call.response.body.usage.completion_tokens.n)

\* C24: with every logging toggle on, each handle_chat_completion call
\* prints one REQUEST event first and then exactly one SUCCESS or ERROR
\* event, on every path: rejected while inactive, validation failure,
\* backend failure and success.
C24_OneRequestOneOutcomeEvent ==
    (/\ call.op = "handle_chat_completion"
     /\ LoggingOn(get_config.value, "enabled")
     /\ LoggingOn(get_config.value, "logRequests")
     /\ LoggingOn(get_config.value, "logErrors"))
    => call.events \in {<<"REQUEST", "SUCCESS">>, <<"REQUEST", "ERROR">>}

\* C25: after a handle_chat_completion call that returned 200 the health
\* snapshot's last successful completion describes that completion, and
\* after one that returned an error response its last error describes that
\* error.
C25_HealthKeepsLastOutcome ==
    (call.op = "handle_chat_completion" /\ call.raised = NoExc)
    => IF call.response.statusCode = 200
       THEN /\ last_successful_completion # None
            /\ last_successful_completion.timestamp = now
            /\ last_successful_completion.tokens.totalTokens
                 = call.response.body.usage.total_tokens
       ELSE /\ last_error # None
            /\ last_error.message = call.response.body.error.message

\* C27: every completion() call handle_chat_completion makes carries an
\* explicit timeout, so that a provider that never answers ends in a 503
\* service_unavailable response.
C27_CompletionCarriesTimeout ==
    call.op = "handle_chat_completion"
    => \A i \in DOMAIN call.completions : "timeout" \in DOMAIN call.completions[i]

\* The configuration a chat request was served with: requests do not write
\* the configuration file
served_config == get_config.value

\* C28: the api_key of the completion() call of a chat request is the value
\* of the environment variable the configuration's apiKeyEnvVar names, also
\* when that name differs from the one the catalog gives for the provider.
C28_SecretFromConfiguredEnvVar ==
    call.op = "handle_chat_completion"
    => \A i \in DOMAIN call.completions :
          /\ GetOr(served_config, "apiKeyEnvVar", PyStr("OPENAI_API_KEY")).t = "str"
          /\ call.completions[i]["api_key"]
               = EnvGet(GetOr(served_config, "apiKeyEnvVar", PyStr("OPENAI_API_KEY")).s)

\* C29: when completion() returns and the text it produced is empty,
\* handle_chat_completion answers 503 service_unavailable with the message
\* "Backend returned empty response"; a 200 response never has an empty
\* content.
C29_EmptyTextIsFailure ==
    (call.op = "handle_chat_completion" /\ call.raised = NoExc)
    => /\ (/\ call.completions # <<>>
           /\ call.backend.kind = "response"
           /\ ~Truthy(call.backend.content))
          => /\ call.response.statusCode = 503
             /\ call.response.body.error.type = "service_unavailable"
             /\ call.response.body.error.message = "Backend returned empty response"
       /\ call.response.statusCode = 200
          => Truthy(call.response.body.choices[1].message.content)

C29_Witness ==
    /\ call.op = "handle_chat_completion"
    /\ call.completions # <<>>
    /\ call.backend = Returns(None, None)
    /\ call.response.statusCode = 503

C30_ListModelsByProvider ==
    call.op = "list_models"
    => IF Truthy(call.provider)
       THEN IF call.provider.t = "str" /\ call.provider.s \in DOMAIN SUPPORTED_PROVIDERS
            THEN /\ Len(call.value) = Len(SUPPORTED_PROVIDERS[call.provider.s].models)
                 /\ \A i \in DOMAIN call.value :
                       /\ call.value[i].id = SUPPORTED_PROVIDERS[call.provider.s].models[i].id
                       /\ call.value[i].label = SUPPORTED_PROVIDERS[call.provider.s].models[i].label
                       /\ call.value[i].provider = call.provider.s
            ELSE call.value = <<>>
       ELSE /\ Len(call.value)
                 = Cardinality(UNION {{<<p, i>> : i \in DOMAIN SUPPORTED_PROVIDERS[p].models} :
                                         p \in DOMAIN SUPPORTED_PROVIDERS})
            /\ \A p \in DOMAIN SUPPORTED_PROVIDERS :
                  \A i \in DOMAIN SUPPORTED_PROVIDERS[p].models :
                     \E j \in DOMAIN call.value :
                        /\ call.value[j].provider = p
                        /\ call.value[j].id = SUPPORTED_PROVIDERS[p].models[i].id

C30_Witness ==
    /\ call.op = "list_models"
    /\ call.provider = PyStr("ollama")
    /\ call.value = <<>>

\* C31, as claimed: two POST /config/save requests in flight at the same time
\* interleave their read-modify-write sequences, so that the last writer's
\* document is built from the configuration the first writer read and the
\* first writer's update to a key the last writer does not set is lost.
SavedInFlightTogether(r, s) ==
    /\ r # s
    /\ in_flight[r].pc = "done" /\ in_flight[s].pc = "done"
    /\ s \in in_flight[r].suspended
    /\ in_flight[r].ok /\ in_flight[s].ok
    /\ \E k \in DOMAIN in_flight[r].updates :
          /\ k \notin DOMAIN in_flight[s].updates
          /\ in_flight[r].updates[k] # in_flight[r].read[k]

C32_StopKeepsSelection ==
    (call.op = "stop_emulator" /\ call.result) =>
        /\ ~emulator_active
        /\ get_config.value = Merge(call.before, [emulatorActive |-> PyBool(FALSE)])
        /\ config_file.kind = "json"
        /\ config_file.doc = get_config.value
        /\ \A k \in DOMAIN call.before \ {"emulatorActive"} :
              config_file.doc[k] = call.before[k]

C32_Witness ==
    /\ call.op = "stop_emulator" /\ call.result
    /\ call.before["emulatorActive"] = PyBool(TRUE)
    /\ call.before["lastConfig"] # None
    /\ "extra" \in DOMAIN call.before
    /\ config_file.doc["model"] = PyStr("gpt-4o")

\* C33: is_emulator_active is tested before validate_request: while the
\* emulator is inactive a request that validate_request rejects (no model, no
\* messages and no prompt, a body that is no object) is answered 503
\* service_unavailable with no exception and no completion() call, and a 400
\* response is returned only while the emulator is active.
C33_GateBeforeValidation ==
    call.op = "handle_chat_completion" =>
        /\ (~call.active /\ validate_request(call.request_body) # NoExc) =>
              /\ call.raised = NoExc
              /\ call.response.statusCode = 503
              /\ call.response.body.error.type = "service_unavailable"
              /\ call.completions = <<>>
        /\ (call.raised = NoExc /\ call.response.statusCode = 400) => call.active

C33_Witness ==
    /\ call.op = "handle_chat_completion"
    /\ ~call.active
    /\ call.request_body = None
    /\ validate_request(call.request_body) # NoExc
    /\ call.response.statusCode = 503

\* C36: a preset mutation whose save fails leaves the list get_saved_configs
\* returns as it was: after a failed add_saved_config the list is the list
\* from before the call, after a failed update_saved_config of an existing
\* preset get_saved_config_by_id returns the preset as it was, and the list
\* in memory, when there is one, is the persisted document.
C36_FailedPresetSaveLeavesList ==
    /\ (call.op = "add_saved_config" /\ call.result = None) =>
          get_saved_configs.value = call.before
    /\ (/\ call.op = "update_saved_config"
        /\ ~call.result
        /\ FirstWithId(call.before, call.config_id) # 0) =>
          get_saved_config_by_id(call.config_id)
            = PyDict(call.before[FirstWithId(call.before, call.config_id)])
    /\ (/\ call.op \in {"add_saved_config", "update_saved_config"}
        /\ cached_saved_configs # None
        /\ saved_configs_file.kind = "json") =>
          cached_saved_configs.xs = saved_configs_file.doc

\* C34: what get_models returns depends only on its provider filter: with a
\* filter every model returned has that provider, without one the models of
\* every catalog provider are returned, from the cache as after a refresh.
C34_GetModelsFollowsFilter ==
    call.op = "get_models" =>
        IF Truthy(call.provider)
        THEN \A i \in DOMAIN call.models : Get(call.models[i].d, "provider") = call.provider
        ELSE call.models = normalized(models_from(1))

\* C35: in a process that started inactive and is driven by its routes,
\* whenever the emulator is active the provider and model of the
\* configuration, which chat requests are routed to, are a pair
\* emulator_start validates: the provider is in the catalog and the model is
\* one of its models.
C35_ActiveRoutesToValidatedPair ==
    emulator_active =>
        model_listed(GetOr(get_config.value, "provider", PyStr("openai")),
                     GetOr(get_config.value, "model", PyStr("gpt-4")))
====
